---------------------------- MODULE Spec2Model ----------------------------
(***************************************************************************)
(* A model of the finance calculators' quantitative engine                 *)
(* (src/calculators/*.py with the tables of src/config.py).                *)
(*                                                                         *)
(* Numbers.  Python floats are modelled as exact rationals <<n, d>> in     *)
(* lowest terms with d > 0; float("inf") is <<1, 0>>.  Every arithmetic    *)
(* operator below computes the exact result, so the binary64 rounding of   *)
(* each single operation (relative error 2^-53) is not modelled; what the  *)
(* code rounds itself, round(x, 2), is modelled by Round.  The one loop    *)
(* that runs for hundreds of iterations (payoff_sim) rounds every product  *)
(* to a decimal grid, see FlMul.                                           *)
(***************************************************************************)
EXTENDS Integers, Sequences, FiniteSets, TLC

\* ------------------------------------------------------------------------
\* Exact rational arithmetic
\* ------------------------------------------------------------------------

\* The one element of a singleton set.  The operators below bind their
\* operands as the elements of singleton sets, so that an operand is
\* evaluated once, before the operation, as Python evaluates an argument.
Val(S) == CHOOSE v \in S : TRUE

Abs(n) == IF n < 0 THEN -n ELSE n

RECURSIVE GCD(_, _)
GCD(a, b) == IF b = 0 THEN a ELSE GCD(b, a % b)

\* The rational num/den in lowest terms, the sign carried by the numerator.
Rat(num, den) ==
    Val({ LET g == GCD(Abs(n), Abs(d))
              s == IF d < 0 THEN -1 ELSE 1
          IN  <<s * (n \div g), s * (d \div g)>> : n \in {num}, d \in {den} })

RI(k) == <<k, 1>>
Inf == <<1, 0>>
Zero == <<0, 1>>
One == <<1, 1>>
IsInf(x) == x[2] = 0

RNeg(a) == Val({ <<-x[1], x[2]>> : x \in {a} })

RAdd(a, b) ==
    Val({ LET g == GCD(x[2], y[2])
          IN  Rat(x[1] * (y[2] \div g) + y[1] * (x[2] \div g), (x[2] \div g) * y[2])
          : x \in {a}, y \in {b} })

RSub(x, y) == RAdd(x, RNeg(y))

RMul(a, b) ==
    Val({ LET g1 == GCD(Abs(x[1]), y[2])
              g2 == GCD(Abs(y[1]), x[2])
          IN  <<(x[1] \div g1) * (y[1] \div g2), (x[2] \div g2) * (y[2] \div g1)>>
          : x \in {a}, y \in {b} })

RInv(a) == Val({ IF x[1] < 0 THEN <<-x[2], -x[1]>> ELSE <<x[2], x[1]>> : x \in {a} })

\* x / y for y # 0 (callers test for a zero divisor, as Python raises there).
RDiv(x, y) == RMul(x, RInv(y))

RLe(a, b) ==
    \E x \in {a}, y \in {b} :
        IF IsInf(y) THEN TRUE
        ELSE IF IsInf(x) THEN FALSE
        ELSE LET g == GCD(x[2], y[2])
             IN  x[1] * (y[2] \div g) <= y[1] * (x[2] \div g)

RLt(x, y) == ~RLe(y, x)

SameAmount(x, y) == RLe(x, y) /\ RLe(y, x)

RMax(a, b) == Val({ IF RLe(y, x) THEN x ELSE y : x \in {a}, y \in {b} })
RMin(a, b) == Val({ IF RLe(x, y) THEN x ELSE y : x \in {a}, y \in {b} })

\* x ** k for an integer k (Python: a negative k gives the reciprocal).
RECURSIVE RPow(_, _)
RPow(x, k) ==
    IF k = 0 THEN One
    ELSE IF k < 0 THEN RInv(RPow(x, -k))
    ELSE RMul(x, RPow(x, k - 1))

RECURSIVE Pow10(_)
Pow10(k) == IF k = 0 THEN 1 ELSE 10 * Pow10(k - 1)

\* The decimal literal n * 10^-k, e.g. 0.062 is D(62, 3).
D(n, k) == Rat(n, Pow10(k))

\* Long division: the first `digits` decimal digits of s / d (0 <= s < d) as
\* an integer, and the remainder left.
RECURSIVE Digits(_, _, _, _)
Digits(s, d, digits, acc) ==
    IF digits = 0 THEN <<acc, s>>
    ELSE Digits((s * 10) % d, d, digits - 1, acc * 10 + ((s * 10) \div d))

\* x in units of 10^-digits: the whole units below it, and how what is left
\* compares with half a unit (-1 below, 0 an exact tie, 1 above).
RoundParts(a, digits) ==
    Val({ Val({ [u    |-> (x[1] \div x[2]) * Pow10(digits) + fr[1],
                 half |-> IF 2 * fr[2] > x[2] THEN 1
                          ELSE IF 2 * fr[2] = x[2] THEN 0 ELSE -1]
                : fr \in {Digits(x[1] % x[2], x[2], digits, 0)} })
          : x \in {a} })

\* round(x, digits) of a value the float holds exactly: the nearest multiple
\* of 10^-digits, an exact tie going to the even multiple.
Round(x, digits) ==
    Val({ Rat(IF p.half = 1 \/ (p.half = 0 /\ p.u % 2 = 1) THEN p.u + 1 ELSE p.u,
              Pow10(digits)) : p \in {RoundParts(x, digits)} })

\* round(x, digits) of a computed value.  binary64 holds almost no decimal
\* tie exactly: the float of a value that is a tie in exact arithmetic lies
\* just below or just above it, and round() follows the float.  `side` says
\* where ("down", "up"); away from a tie it plays no part.
Sides == {"down", "up"}

RoundTie(x, digits, side) ==
    Val({ Rat(IF p.half = 1 \/ (p.half = 0 /\ side = "up") THEN p.u + 1 ELSE p.u,
              Pow10(digits)) : p \in {RoundParts(x, digits)} })

\* ------------------------------------------------------------------------
\* Policy tables: config.py
\* ------------------------------------------------------------------------

US_STANDARD_DEDUCTION ==
    [single |-> RI(15000), mfj |-> RI(30000), hoh |-> RI(22500)]

US_TAX_BRACKETS ==
    [single |-> << <<RI(11925), D(10, 2)>>, <<RI(48475), D(12, 2)>>,
                   <<RI(103350), D(22, 2)>>, <<RI(197300), D(24, 2)>>,
                   <<RI(250525), D(32, 2)>>, <<RI(626350), D(35, 2)>>,
                   <<Inf, D(37, 2)>> >>,
     mfj    |-> << <<RI(23850), D(10, 2)>>, <<RI(96950), D(12, 2)>>,
                   <<RI(206700), D(22, 2)>>, <<RI(394600), D(24, 2)>>,
                   <<RI(501050), D(32, 2)>>, <<RI(751600), D(35, 2)>>,
                   <<Inf, D(37, 2)>> >>,
     hoh    |-> << <<RI(17000), D(10, 2)>>, <<RI(64850), D(12, 2)>>,
                   <<RI(103350), D(22, 2)>>, <<RI(197300), D(24, 2)>>,
                   <<RI(250500), D(32, 2)>>, <<RI(626350), D(35, 2)>>,
                   <<Inf, D(37, 2)>> >>]

US_FICA ==
    [ss_rate                              |-> D(62, 3),
     ss_wage_base                         |-> RI(176100),
     medicare_rate                        |-> D(145, 4),
     additional_medicare_rate             |-> D(9, 3),
     additional_medicare_threshold_single |-> RI(200000),
     additional_medicare_threshold_mfj    |-> RI(250000)]

US_STATE_TAX ==
    [CA |-> D(93, 3), NY |-> D(685, 4), NJ |-> D(637, 4), MA |-> D(5, 2),
     IL |-> D(495, 4), TX |-> Zero, FL |-> Zero, WA |-> Zero, NV |-> Zero,
     AK |-> Zero, other |-> D(5, 2)]

UK_PERSONAL_ALLOWANCE == RI(12570)
UK_PA_TAPER_START == RI(100000)

UK_TAX_BRACKETS ==
    << <<RI(50270), D(20, 2)>>, <<RI(125140), D(40, 2)>>, <<Inf, D(45, 2)>> >>

UK_NI_EMPLOYEE ==
    [lower_earnings_limit |-> RI(6396),
     upper_earnings_limit |-> RI(50270),
     rate_main            |-> D(8, 2),
     rate_upper           |-> D(2, 2)]

INDIA_NEW_REGIME ==
    [standard_deduction |-> RI(75000),
     brackets |-> << <<RI(400000), Zero>>, <<RI(800000), D(5, 2)>>,
                     <<RI(1200000), D(10, 2)>>, <<RI(1600000), D(15, 2)>>,
                     <<RI(2000000), D(20, 2)>>, <<RI(2400000), D(25, 2)>>,
                     <<Inf, D(30, 2)>> >>,
     rebate_87a_limit |-> RI(1200000),
     cess_rate        |-> D(4, 2)]

INDIA_OLD_REGIME ==
    [standard_deduction |-> RI(50000),
     brackets |-> << <<RI(250000), Zero>>, <<RI(500000), D(5, 2)>>,
                     <<RI(1000000), D(20, 2)>>, <<Inf, D(30, 2)>> >>,
     rebate_87a_limit |-> RI(500000),
     cess_rate        |-> D(4, 2)]

INDIA_SURCHARGE ==
    << <<RI(5000000), Zero>>, <<RI(10000000), D(10, 2)>>,
       <<RI(20000000), D(15, 2)>>, <<RI(50000000), D(25, 2)>>,
       <<Inf, D(25, 2)>> >>

US_LTCG_BRACKETS ==
    [single |-> << <<RI(48350), Zero>>, <<RI(533400), D(15, 2)>>, <<Inf, D(20, 2)>> >>,
     mfj    |-> << <<RI(96700), Zero>>, <<RI(600050), D(15, 2)>>, <<Inf, D(20, 2)>> >>]

US_NIIT_RATE == D(38, 3)
US_NIIT_THRESHOLD == [single |-> RI(200000), mfj |-> RI(250000)]
US_LTCG_HOLDING_MONTHS == 12

UK_CGT ==
    [annual_exempt         |-> RI(3000),
     basic_rate            |-> D(18, 2),
     higher_rate           |-> D(24, 2),
     higher_rate_threshold |-> RI(50270)]

INDIA_CGT ==
    [equity_ltcg_rate        |-> D(125, 3),
     equity_ltcg_exemption   |-> RI(125000),
     equity_stcg_rate        |-> D(20, 2),
     property_ltcg_rate      |-> D(20, 2),
     other_ltcg_rate         |-> D(20, 2),
     equity_holding_months   |-> RI(12),
     property_holding_months |-> RI(24)]

UK_NI_SELF_EMPLOYED ==
    [class2_annual     |-> RI(179),
     class4_lower      |-> RI(12570),
     class4_upper      |-> RI(50270),
     class4_rate_main  |-> D(6, 2),
     class4_rate_upper |-> D(2, 2)]

\* The tables as the process holds them after import; the freelance and
\* capital-gains handlers read them from the variable `tables`.
PolicyTables ==
    [US_STANDARD_DEDUCTION  |-> US_STANDARD_DEDUCTION,
     US_TAX_BRACKETS        |-> US_TAX_BRACKETS,
     US_STATE_TAX           |-> US_STATE_TAX,
     UK_PERSONAL_ALLOWANCE  |-> UK_PERSONAL_ALLOWANCE,
     UK_PA_TAPER_START      |-> UK_PA_TAPER_START,
     UK_TAX_BRACKETS        |-> UK_TAX_BRACKETS,
     UK_NI_SELF_EMPLOYED    |-> UK_NI_SELF_EMPLOYED,
     INDIA_NEW_REGIME       |-> INDIA_NEW_REGIME,
     INDIA_SURCHARGE        |-> INDIA_SURCHARGE,
     US_LTCG_BRACKETS       |-> US_LTCG_BRACKETS,
     US_NIIT_RATE           |-> US_NIIT_RATE,
     US_NIIT_THRESHOLD      |-> US_NIIT_THRESHOLD,
     US_LTCG_HOLDING_MONTHS |-> US_LTCG_HOLDING_MONTHS,
     UK_CGT                 |-> UK_CGT,
     INDIA_CGT              |-> INDIA_CGT]

\* ------------------------------------------------------------------------
\* State
\* ------------------------------------------------------------------------

VARIABLES
    pc,     \* position of the request being served
    mort,   \* frame of the mortgage helpers: arguments, locals, result
    tax,    \* frame of the tax engine
    debt,   \* frame of api_credit_card and its payoff_sim
    inv,    \* frame of the investment calculators
    budget, \* frame of the budget planner
    tables, \* the policy tables of config.py, shared by every request
    served  \* the requests answered so far, each with its outcome

vars == <<pc, mort, tax, debt, inv, budget, tables, served>>

NoFrame == [fn |-> "none"]

\* ------------------------------------------------------------------------
\* Annuity engine: mortgage.py, debt.py
\* ------------------------------------------------------------------------

\* Bounds of the loan terms a request may carry: -MaxNegTerm .. MaxTerm.
MaxNegTerm == 1
MaxTerm == 3

Principals == {Zero, <<1, 125>>, RI(100)}
Rates == {Zero, RI(60), RI(120)}
Terms == (0 - MaxNegTerm) .. MaxTerm

Raised(exc) == [kind |-> "raise", exc |-> exc]
Returned(v) == [kind |-> "return", value |-> v]

\* The annuity formula with the exponent off by one.
MonthlyPaymentTermOffByOne(principal, annual_rate_pct, term_months) ==
    IF annual_rate_pct = Zero
    THEN Returned(IF term_months # 0
                  THEN RDiv(principal, RI(term_months)) ELSE Zero)
    ELSE LET r == RDiv(RDiv(annual_rate_pct, RI(100)), RI(12))
             g == RPow(RAdd(One, r), term_months + 1)
         IN  IF RSub(g, One) = Zero
             THEN Raised("ZeroDivisionError")
             ELSE Returned(RDiv(RMul(principal, RMul(r, g)), RSub(g, One)))

\* The interest-free branch dividing by one month too many.
MonthlyPaymentZeroRateOffByOne(principal, annual_rate_pct, term_months) ==
    IF annual_rate_pct = Zero
    THEN Returned(IF term_months + 1 # 0
                  THEN RDiv(principal, RI(term_months + 1)) ELSE Zero)
    ELSE LET r == RDiv(RDiv(annual_rate_pct, RI(100)), RI(12))
             g == RPow(RAdd(One, r), term_months)
         IN  IF RSub(g, One) = Zero
             THEN Raised("ZeroDivisionError")
             ELSE Returned(RDiv(RMul(principal, RMul(r, g)), RSub(g, One)))

\* mortgage._monthly_payment: the value it returns, or the exception the
\* division raises when (1 + r) ** term_months - 1 is 0.
_monthly_payment(principal, annual_rate_pct, term_months) ==
    IF annual_rate_pct = Zero
    THEN Returned(IF term_months # 0
                  THEN RDiv(principal, RI(term_months)) ELSE Zero)
    ELSE LET r == RDiv(RDiv(annual_rate_pct, RI(100)), RI(12))
             g == RPow(RAdd(One, r), term_months)
         IN  IF RSub(g, One) = Zero
             THEN Raised("ZeroDivisionError")
             ELSE Returned(RDiv(RMul(principal, RMul(r, g)), RSub(g, One)))

\* debt._monthly_payment, the second copy of the helper.
debt_monthly_payment(principal, annual_rate_pct, term_months) ==
    IF annual_rate_pct = Zero
    THEN Returned(IF term_months # 0
                  THEN RDiv(principal, RI(term_months)) ELSE Zero)
    ELSE LET r == RDiv(RDiv(annual_rate_pct, RI(100)), RI(12))
             g == RPow(RAdd(One, r), term_months)
         IN  IF RSub(g, One) = Zero
             THEN Raised("ZeroDivisionError")
             ELSE Returned(RDiv(RMul(principal, RMul(r, g)), RSub(g, One)))

\* One pass of the loop of _amortize with the principal part negated.
AmortizeStepSignFlipped(balance, r, payment, m) ==
    LET interest       == RMul(balance, r)
        principal_paid == RSub(interest, payment)
        balance2       == RMax(RSub(balance, principal_paid), Zero)
    IN  [balance |-> balance2,
         row     |-> [month     |-> m,
                      payment   |-> Round(payment, 2),
                      principal |-> Round(principal_paid, 2),
                      interest  |-> Round(interest, 2),
                      balance   |-> Round(balance2, 2)]]

\* One pass of the loop of _amortize: the new balance and the row appended.
AmortizeStep(balance, r, payment, m) ==
    LET interest       == RMul(balance, r)
        principal_paid == RSub(payment, interest)
        balance2       == RMax(RSub(balance, principal_paid), Zero)
    IN  [balance |-> balance2,
         row     |-> [month     |-> m,
                      payment   |-> Round(payment, 2),
                      principal |-> Round(principal_paid, 2),
                      interest  |-> Round(interest, 2),
                      balance   |-> Round(balance2, 2)]]

\* A direct call of either copy of the helper.
MonthlyPaymentCall ==
    /\ pc = "idle"
    /\ \E principal \in Principals, annual_rate_pct \in Rates,
          term_months \in Terms, copy \in {"mortgage", "debt"} :
          mort' = [fn              |-> "_monthly_payment",
                   module          |-> copy,
                   principal       |-> principal,
                   annual_rate_pct |-> annual_rate_pct,
                   term_months     |-> term_months,
                   result          |->
                       IF copy = "mortgage"
                       THEN _monthly_payment(principal, annual_rate_pct, term_months)
                       ELSE debt_monthly_payment(principal, annual_rate_pct, term_months)]
    /\ pc' = "done"
    /\ UNCHANGED <<tax, debt, inv, budget, tables, served>>

\* _amortize up to its loop: the locals are set and the payment computed;
\* an exception of _monthly_payment leaves _amortize at once.
AmortizeCall ==
    /\ pc = "idle"
    /\ \E principal \in Principals, annual_rate_pct \in Rates,
          term_months \in Terms :
          LET p == _monthly_payment(principal, annual_rate_pct, term_months)
              f == [fn              |-> "_amortize",
                    principal       |-> principal,
                    annual_rate_pct |-> annual_rate_pct,
                    term_months     |-> term_months]
          IN  IF p.kind = "raise"
              THEN /\ mort' = f @@ [result |-> p]
                   /\ pc' = "raised"
              ELSE /\ mort' = f @@
                        [schedule |-> <<>>,
                         balance  |-> principal,
                         r        |-> RDiv(RDiv(annual_rate_pct, RI(100)), RI(12)),
                         payment  |-> p.value,
                         m        |-> 1]
                   /\ pc' = "amortize_loop"
    /\ UNCHANGED <<tax, debt, inv, budget, tables, served>>

\* for m in range(1, term_months + 1): one pass.
AmortizeIter ==
    /\ pc = "amortize_loop"
    /\ mort.m <= mort.term_months
    /\ LET s == AmortizeStep(mort.balance, mort.r, mort.payment, mort.m)
       IN  mort' = [mort EXCEPT !.balance  = s.balance,
                                !.schedule = Append(@, s.row),
                                !.m        = @ + 1]
    /\ UNCHANGED <<pc, tax, debt, inv, budget, tables, served>>

\* return schedule
AmortizeReturn ==
    /\ pc = "amortize_loop"
    /\ mort.m > mort.term_months
    /\ pc' = "done"
    /\ UNCHANGED <<mort, tax, debt, inv, budget, tables, served>>

AnnuityNext == MonthlyPaymentCall \/ AmortizeCall \/ AmortizeIter \/ AmortizeReturn

Init ==
    /\ pc = "idle"
    /\ mort = NoFrame
    /\ tax = NoFrame
    /\ debt = NoFrame
    /\ inv = NoFrame
    /\ budget = NoFrame
    /\ tables = PolicyTables
    /\ served = <<>>

SpecAnnuity == Init /\ [][AnnuityNext]_vars

\* ------------------------------------------------------------------------
\* Progressive tax engine: tax.py
\* ------------------------------------------------------------------------

\* The label of a band, f"${prev_upper:,.0f} - ...": the currency sign and
\* the two bounds formatted to 0 decimals.
BandLabel(currency, prev_upper, upper) ==
    [currency |-> currency,
     lo       |-> Round(prev_upper, 0),
     hi       |-> IF IsInf(upper) THEN Inf ELSE Round(upper, 0)]

\* The loop of _apply_brackets from bracket i on; sides.band is the side of
\* the float of a band's tax at a tie.
RECURSIVE BracketLoop(_, _, _, _, _, _, _, _)
BracketLoop(taxable_income, brackets, currency, sides, i, tax_, prev_upper, applied) ==
    IF i > Len(brackets) \/ RLe(taxable_income, prev_upper)
    THEN [tax |-> tax_, applied |-> applied]
    ELSE Val({ Val({
             LET row == [bracket |-> BandLabel(currency, prev_upper, upper),
                         rate    |-> Round(RMul(rate, RI(100)), 1),
                         tax     |-> RoundTie(band_tax, 2, sides.band)]
             IN  IF RLe(taxable_income, upper)
                 THEN [tax |-> RAdd(tax_, band_tax), applied |-> Append(applied, row)]
                 ELSE BracketLoop(taxable_income, brackets, currency, sides, i + 1,
                                  RAdd(tax_, band_tax), upper, Append(applied, row))
             : band_tax \in {RMul(RSub(RMin(taxable_income, upper), prev_upper), rate)} })
             : upper \in {brackets[i][1]}, rate \in {brackets[i][2]} })

\* The loop with the running total overwritten by each band's tax.
ApplyBracketsLastBandOnly(taxable_income, brackets, sides) ==
    LET l == BracketLoop(taxable_income, brackets, "$", sides, 1, Zero, Zero, <<>>)
        n == Len(l.applied)
    IN  [tax     |-> IF n = 0 THEN Zero ELSE l.applied[n].tax,
         applied |-> l.applied]

\* _apply_brackets: (round(tax, 2), applied); sides.total is the side of the
\* float of the total at a tie.
_apply_brackets(taxable_income, brackets, sides) ==
    LET l == BracketLoop(taxable_income, brackets, "$", sides, 1, Zero, Zero, <<>>)
    IN  [tax |-> RoundTie(l.tax, 2, sides.total), applied |-> l.applied]

\* _india_apply_brackets: the same loop, labelled in rupees.
_india_apply_brackets(taxable_income, brackets, sides) ==
    LET l == BracketLoop(taxable_income, brackets, "Rs", sides, 1, Zero, Zero, <<>>)
    IN  [tax |-> RoundTie(l.tax, 2, sides.total), applied |-> l.applied]

\* _india_surcharge
RECURSIVE SurchargeLoop(_, _, _)
SurchargeLoop(base_tax, income, i) ==
    IF i > Len(INDIA_SURCHARGE) THEN Zero
    ELSE IF RLe(income, INDIA_SURCHARGE[i][1])
         THEN Round(RMul(base_tax, INDIA_SURCHARGE[i][2]), 2)
         ELSE SurchargeLoop(base_tax, income, i + 1)

_india_surcharge(base_tax, income) == SurchargeLoop(base_tax, income, 1)

\* for upper, rate in brackets: if taxable <= upper: marg_rate = rate * 100
RECURSIVE MargRate(_, _, _)
MargRate(taxable, brackets, i) ==
    IF i > Len(brackets) THEN Zero
    ELSE IF RLe(taxable, brackets[i][1])
         THEN RMul(brackets[i][2], RI(100))
         ELSE MargRate(taxable, brackets, i + 1)

\* ------------------------------------------------------------------------
\* Take-home pay: tax.py
\* ------------------------------------------------------------------------

\* sides.field is the side, at a tie, of the floats the wrappers round
\* themselves.
ApplySides == [band : Sides, total : Sides]
SideChoices == [band : Sides, total : Sides, field : Sides]

UsFiling(filing) == IF filing \in DOMAIN US_TAX_BRACKETS THEN filing ELSE "single"

UsTaxable(gross, filing) ==
    RMax(RSub(gross, US_STANDARD_DEDUCTION[UsFiling(filing)]), Zero)

\* The locals of the wrappers are bound in the order the code assigns them;
\* ab is the pair (fed_tax, brackets_applied).
_us_take_home(gross, filing_in, state, sides) ==
    Val({ Val({ Val({ Val({
        [gross_annual     |-> RoundTie(gross, 2, sides.field),
         total_tax        |-> RoundTie(total_tax, 2, sides.field),
         effective_rate   |-> RoundTie(eff_rate, 2, sides.field),
         marginal_rate    |-> Round(marg_rate, 1),
         take_home_annual |-> RoundTie(take_home, 2, sides.field),
         breakdown |-> [federal_tax     |-> Round(ab.tax, 2),
                        state_tax       |-> RoundTie(state_tax, 2, sides.field),
                        social_security |-> RoundTie(ss_tax, 2, sides.field),
                        medicare        |-> RoundTie(RAdd(med_tax, add_med), 2, sides.field)],
         tax_brackets_applied |-> ab.applied]
        : take_home \in {RSub(gross, total_tax)},
          eff_rate  \in {IF RLt(Zero, gross) THEN RMul(RDiv(total_tax, gross), RI(100))
                         ELSE Zero},
          marg_rate \in {MargRate(taxable, US_TAX_BRACKETS[filing], 1)} })
        : total_tax \in {RAdd(RAdd(RAdd(RAdd(ab.tax, ss_tax), med_tax), add_med), state_tax)} })
        : ab        \in {_apply_brackets(taxable, US_TAX_BRACKETS[filing], sides)},
          ss_tax    \in {RMul(RMin(gross, US_FICA.ss_wage_base), US_FICA.ss_rate)},
          med_tax   \in {RMul(gross, US_FICA.medicare_rate)},
          add_med   \in {RMul(RMax(RSub(gross, US_FICA.additional_medicare_threshold_single),
                                   Zero),
                              US_FICA.additional_medicare_rate)},
          state_tax \in {RMul(gross, IF state \in DOMAIN US_STATE_TAX THEN US_STATE_TAX[state]
                                     ELSE US_STATE_TAX.other)} })
        : filing  \in {UsFiling(filing_in)},
          taxable \in {UsTaxable(gross, filing_in)} })

UkAllowance(gross) ==
    IF RLt(UK_PA_TAPER_START, gross)
    THEN RMax(RSub(UK_PERSONAL_ALLOWANCE, RDiv(RSub(gross, UK_PA_TAPER_START), RI(2))), Zero)
    ELSE UK_PERSONAL_ALLOWANCE

UkTaxable(gross) == RMax(RSub(gross, UkAllowance(gross)), Zero)

UkNi(gross) ==
    IF RLt(UK_NI_EMPLOYEE.lower_earnings_limit, gross)
    THEN RSub(RAdd(RMul(RMin(gross, UK_NI_EMPLOYEE.upper_earnings_limit),
                        UK_NI_EMPLOYEE.rate_main),
                   IF RLt(UK_NI_EMPLOYEE.upper_earnings_limit, gross)
                   THEN RMul(RSub(gross, UK_NI_EMPLOYEE.upper_earnings_limit),
                             UK_NI_EMPLOYEE.rate_upper)
                   ELSE Zero),
              RMul(UK_NI_EMPLOYEE.lower_earnings_limit, UK_NI_EMPLOYEE.rate_main))
    ELSE Zero

_uk_take_home(gross, sides) ==
    Val({ Val({ Val({ Val({
        [gross_annual     |-> RoundTie(gross, 2, sides.field),
         total_tax        |-> RoundTie(total_tax, 2, sides.field),
         effective_rate   |-> RoundTie(eff_rate, 2, sides.field),
         marginal_rate    |-> Round(marg_rate, 1),
         take_home_annual |-> RoundTie(take_home, 2, sides.field),
         breakdown |-> [income_tax         |-> Round(ab.tax, 2),
                        national_insurance |-> RoundTie(ni, 2, sides.field)],
         tax_brackets_applied |-> ab.applied]
        : take_home \in {RSub(gross, total_tax)},
          eff_rate  \in {IF RLt(Zero, gross) THEN RMul(RDiv(total_tax, gross), RI(100))
                         ELSE Zero},
          marg_rate \in {MargRate(taxable, UK_TAX_BRACKETS, 1)} })
        : total_tax \in {RAdd(ab.tax, ni)} })
        : ab \in {_apply_brackets(taxable, UK_TAX_BRACKETS, sides)},
          ni \in {UkNi(gross)} })
        : taxable \in {UkTaxable(gross)} })

IndiaCfg(regime) == IF regime = "new" THEN INDIA_NEW_REGIME ELSE INDIA_OLD_REGIME

IndiaTaxable(gross, regime) ==
    RMax(RSub(gross, IndiaCfg(regime).standard_deduction), Zero)

_india_take_home(gross, regime, sides) ==
    Val({ Val({ Val({ Val({ Val({ Val({
        [gross_annual     |-> RoundTie(gross, 2, sides.field),
         total_tax        |-> RoundTie(total_tax, 2, sides.field),
         effective_rate   |-> RoundTie(eff_rate, 2, sides.field),
         marginal_rate    |-> Round(marg_rate, 1),
         take_home_annual |-> RoundTie(take_home, 2, sides.field),
         breakdown |-> [income_tax |-> Round(base_tax, 2),
                        surcharge  |-> Round(surcharge, 2),
                        cess       |-> RoundTie(cess, 2, sides.field)],
         tax_brackets_applied |-> ab.applied]
        : take_home \in {RSub(gross, total_tax)},
          eff_rate  \in {IF RLt(Zero, gross) THEN RMul(RDiv(total_tax, gross), RI(100))
                         ELSE Zero},
          marg_rate \in {MargRate(taxable, cfg.brackets, 1)} })
        : cess      \in {RMul(RAdd(base_tax, surcharge), cfg.cess_rate)},
          total_tax \in {RAdd(RAdd(base_tax, surcharge),
                              RMul(RAdd(base_tax, surcharge), cfg.cess_rate))} })
        : surcharge \in {_india_surcharge(base_tax, gross)} })
        : base_tax \in {IF RLe(taxable, cfg.rebate_87a_limit) THEN Zero ELSE ab.tax} })
        : ab \in {_india_apply_brackets(taxable, cfg.brackets, sides)} })
        : cfg     \in {IndiaCfg(regime)},
          taxable \in {IndiaTaxable(gross, regime)} })

\* str.upper() / str.lower() on the option strings a request carries.
Upper(s) == CASE s = "us" -> "US" [] s = "uk" -> "UK" [] s = "in" -> "IN" [] OTHER -> s
Lower(s) == CASE s = "SINGLE" -> "single" [] s = "MFJ" -> "mfj" [] s = "HOH" -> "hoh"
            [] OTHER -> s

Unprocessable(error) == [status |-> 422, ok |-> FALSE, error |-> error]
Ok(data) == [status |-> 200, ok |-> TRUE, data |-> data]

FreqDivisor(pay_freq) ==
    CASE pay_freq = "annual" -> 1 [] pay_freq = "monthly" -> 12
      [] pay_freq = "biweekly" -> 26 [] OTHER -> 1

\* api_take_home_pay on the request body `data`.
api_take_home_pay(data, sides) ==
    IF "gross_income" \notin DOMAIN data THEN Unprocessable("'gross_income'")
    ELSE IF Upper(data.country) \notin {"US", "UK", "IN"}
    THEN Unprocessable("Country must be US, UK, or IN")
    ELSE Val({ Ok(result @@ ("take_home_per_period" :>
                      RoundTie(RDiv(result.take_home_annual,
                                    RI(FreqDivisor(data.pay_frequency))),
                               2, sides.field)))
               : result \in {CASE Upper(data.country) = "US" ->
                                    _us_take_home(data.gross_income,
                                                  Lower(data.filing_status),
                                                  data.state, sides)
                               [] Upper(data.country) = "UK" ->
                                    _uk_take_home(data.gross_income, sides)
                               [] Upper(data.country) = "IN" ->
                                    _india_take_home(data.gross_income, data.regime,
                                                     sides)} })

\* ------------------------------------------------------------------------
\* Tax requests
\* ------------------------------------------------------------------------

Near == 1

Tables == {"single", "mfj", "hoh", "uk", "in_new", "in_old"}

TableBrackets(t) ==
    CASE t = "uk"     -> UK_TAX_BRACKETS
      [] t = "in_new" -> INDIA_NEW_REGIME.brackets
      [] t = "in_old" -> INDIA_OLD_REGIME.brackets
      [] OTHER        -> US_TAX_BRACKETS[t]

TableFn(t) == IF t \in {"in_new", "in_old"} THEN "_india_apply_brackets"
              ELSE "_apply_brackets"

Around(x) == {RAdd(x, RI(k)) : k \in (0 - Near) .. Near}

AroundThousands(x) == {RAdd(x, RI(1000 * k)) : k \in (0 - Near) .. Near}

Uppers(brackets) == {brackets[i][1] : i \in 1 .. Len(brackets) - 1}

\* One income per table whose last band's tax has a half cent.
HalfCentIncome ==
    [single |-> D(2938605, 1), mfj    |-> D(5194955, 1), hoh    |-> D(9076925, 2),
     uk     |-> D(1293021, 1), in_new |-> D(84902075, 2), in_old |-> D(104806475, 2)]

TaxableIncomes(t) ==
    {Zero, D(1, 2), HalfCentIncome[t]}
        \cup UNION {Around(u) : u \in Uppers(TableBrackets(t))}

ApplyTable(t, taxable_income, sides) ==
    IF TableFn(t) = "_apply_brackets"
    THEN _apply_brackets(taxable_income, TableBrackets(t), sides)
    ELSE _india_apply_brackets(taxable_income, TableBrackets(t), sides)

NoCall == [taxable_income |-> "none"]

ApplyBracketsCall ==
    /\ pc = "idle"
    /\ \E t \in Tables : \E taxable_income \in TaxableIncomes(t) : \E sides \in ApplySides :
         tax' = [fn |-> TableFn(t), table |-> t,
                 taxable_income |-> taxable_income, sides |-> sides,
                 result |-> ApplyTable(t, taxable_income, sides),
                 before |-> NoCall]
    /\ pc' = "done"
    /\ UNCHANGED <<mort, debt, inv, budget, tables, served>>

\* A further call on the same table; the frame keeps the call before it.
\* The floats fall as they fell in the first call: the same product is the
\* same float.
ApplyBracketsAgain ==
    /\ pc = "done"
    /\ tax.fn \in {"_apply_brackets", "_india_apply_brackets"}
    /\ \E taxable_income \in TaxableIncomes(tax.table) :
         tax' = [tax EXCEPT !.taxable_income = taxable_income,
                            !.result = ApplyTable(tax.table, taxable_income, tax.sides),
                            !.before = [taxable_income |-> tax.taxable_income,
                                        result |-> tax.result]]
    /\ UNCHANGED <<pc, mort, debt, inv, budget, tables, served>>

Filings == {"single", "MFJ", "hoh", "widow"}
States == {"CA", "TX", "ZZ"}
PayFrequencies == {"annual", "monthly", "weekly"}
Regimes == {"new", "old"}

UsGross(filing) ==
    {Zero}
        \cup Around(US_STANDARD_DEDUCTION[filing])
        \cup UNION {Around(RAdd(US_STANDARD_DEDUCTION[filing], u)) :
                        u \in Uppers(US_TAX_BRACKETS[filing])}
        \cup Around(US_FICA.ss_wage_base)
        \cup Around(US_FICA.additional_medicare_threshold_single)
        \cup Around(US_FICA.additional_medicare_threshold_mfj)

UkGross ==
    {Zero}
        \cup Around(UK_PERSONAL_ALLOWANCE)
        \cup Around(UK_PA_TAPER_START)
        \cup Around(UK_NI_EMPLOYEE.lower_earnings_limit)
        \cup UNION {Around(u) : u \in Uppers(UK_TAX_BRACKETS)}
        \cup UNION {Around(RAdd(UK_PERSONAL_ALLOWANCE, u)) : u \in Uppers(UK_TAX_BRACKETS)}

IndiaGross(regime) ==
    {Zero}
        \cup Around(IndiaCfg(regime).standard_deduction)
        \cup UNION {Around(RAdd(IndiaCfg(regime).standard_deduction, u)) :
                        u \in Uppers(IndiaCfg(regime).brackets)}
        \cup AroundThousands(INDIA_SURCHARGE[1][1])
        \cup AroundThousands(INDIA_SURCHARGE[2][1])

\* Request bodies without gross_income; a country's request varies the
\* options that country's wrapper reads.
TakeHomeOptions ==
    [country : {"US"}, filing_status : Filings, state : States,
     pay_frequency : PayFrequencies, regime : {"new"}]
        \cup [country : {"uk"}, filing_status : {"single"}, state : {"ZZ"},
              pay_frequency : PayFrequencies, regime : {"new"}]
        \cup [country : {"IN"}, filing_status : {"single"}, state : {"ZZ"},
              pay_frequency : PayFrequencies, regime : Regimes]
        \cup [country : {"FR"}, filing_status : {"single"}, state : {"ZZ"},
              pay_frequency : {"annual"}, regime : Regimes]

GrossIncomes(options) ==
    CASE Upper(options.country) = "UK" -> UkGross
      [] Upper(options.country) = "IN" -> IndiaGross(options.regime)
      [] OTHER -> UsGross(UsFiling(Lower(options.filing_status)))

TakeHomeCall ==
    /\ pc = "idle"
    /\ \E options \in TakeHomeOptions : \E sides \in SideChoices :
         \/ \E gross \in GrossIncomes(options) :
              LET data == options @@ ("gross_income" :> gross)
              IN  tax' = [fn |-> "api_take_home_pay", data |-> data,
                          response |-> api_take_home_pay(data, sides)]
         \/ tax' = [fn |-> "api_take_home_pay", data |-> options,
                    response |-> api_take_home_pay(options, sides)]
    /\ pc' = "done"
    /\ UNCHANGED <<mort, debt, inv, budget, tables, served>>

TaxNext == ApplyBracketsCall \/ ApplyBracketsAgain \/ TakeHomeCall

SpecTax == Init /\ [][TaxNext]_vars

\* ------------------------------------------------------------------------
\* Credit-card payoff: debt.py
\* ------------------------------------------------------------------------

US_CC_AVG_APR == D(215, 1)

\* payoff_sim multiplies hundreds of times over; its floats are modelled on a
\* decimal grid of GridDigits places.  A product is rounded to the nearest
\* grid point (binary64 rounds it to 53 significant bits); sums and
\* differences of grid points are exact.
GridDigits == 3
Grid == Pow10(GridDigits)

\* a * b on the grid, for a >= 0 on the grid and b >= 0.
FlMul(a, b) ==
    Val({ Val({ Val({ Rat(IF 2 * (rest % y[2]) > y[2]
                             \/ (2 * (rest % y[2]) = y[2] /\ whole % 2 = 1)
                          THEN whole + 1 ELSE whole,
                          Grid)
                      : whole \in {(u \div y[2]) * y[1] + (rest \div y[2])} })
                : rest \in {(u % y[2]) * y[1]} })
          : u \in {a[1] * (Grid \div a[2])}, y \in {b} })

MonthCap == 600
ScheduleCap == 360

\* while b > 0.01 and months < 600
PayoffLoopCond(sim) == RLt(D(1, 2), sim.b) /\ sim.months < MonthCap

\* The locals of payoff_sim at its entry.
PayoffEntry(bal, extra) ==
    [extra |-> extra, months |-> 0, total_interest |-> Zero, total_paid |-> Zero,
     schedule |-> <<>>, b |-> bal]

\* A payment that is not held to what is owed.
PayoffPaymentUncapped(min_pmt, extra, b, interest) == RAdd(min_pmt, extra)

\* payment = min(min_pmt + extra, b + interest)
PayoffPayment(min_pmt, extra, b, interest) == RMin(RAdd(min_pmt, extra), RAdd(b, interest))

\* One iteration of the loop of payoff_sim.
PayoffStep(sim, monthly_rate, min_pct, min_floor) ==
    Val({ Val({ Val({ Val({
        [extra          |-> sim.extra,
         months         |-> sim.months + 1,
         total_interest |-> RAdd(sim.total_interest, interest),
         total_paid     |-> RAdd(sim.total_paid, payment),
         schedule       |-> IF sim.months + 1 <= ScheduleCap
                            THEN Append(sim.schedule,
                                        [month     |-> sim.months + 1,
                                         payment   |-> Round(payment, 2),
                                         interest  |-> Round(interest, 2),
                                         principal |-> Round(principal, 2),
                                         balance   |-> Round(b, 2)])
                            ELSE sim.schedule,
         b              |-> b]
        : b \in {RMax(RSub(sim.b, principal), Zero)} })
        : principal \in {RSub(payment, interest)} })
        : payment \in {PayoffPayment(min_pmt, sim.extra, sim.b, interest)} })
        : interest \in {FlMul(sim.b, monthly_rate)},
          min_pmt  \in {RMax(FlMul(FlMul(sim.b, min_pct), D(1, 2)), min_floor)} })

\* data.get(key, default)
Get(data, key, default) == IF key \in DOMAIN data THEN data[key] ELSE default

\* The extra of the two runs: payoff_sim(balance), payoff_sim(balance, extra_payment).
RunExtraSwapped(run, extra_payment) == IF run = 1 THEN extra_payment ELSE Zero

RunExtra(run, extra_payment) == IF run = 1 THEN Zero ELSE extra_payment

\* What payoff_sim returns, and (left) the balance it stopped at, which the
\* code drops.
PayoffReturn(sim) ==
    [months |-> sim.months, total_interest |-> sim.total_interest,
     total_paid |-> sim.total_paid, schedule |-> sim.schedule, left |-> sim.b]

CreditCardResponse(min, extra) ==
    Ok([minimum_only |-> [months_to_payoff |-> min.months,
                          total_interest   |-> Round(min.total_interest, 2),
                          total_paid       |-> Round(min.total_paid, 2)],
        with_extra   |-> [months_to_payoff |-> extra.months,
                          total_interest   |-> Round(extra.total_interest, 2),
                          total_paid       |-> Round(extra.total_paid, 2),
                          interest_saved   |-> Round(RSub(min.total_interest,
                                                          extra.total_interest), 2),
                          months_saved     |-> min.months - extra.months],
        monthly_schedule |-> extra.schedule])

Balances == {Zero, RI(100), RI(5000)}
Aprs == {Zero, US_CC_AVG_APR, RI(24)}
MinPcts == {RI(2), RI(3)}
Floors == {RI(25)}
Extras == {Zero, RI(50)}

\* Request bodies: complete ones, ones that leave every option to its
\* default, and ones without the balance.
CardRequests ==
    [balance : Balances, apr : Aprs, minimum_pct : MinPcts, minimum_floor : Floors,
     extra_payment : Extras]
        \cup [balance : Balances]
        \cup [apr : Aprs]

\* api_credit_card up to the first call of payoff_sim.
CreditCardCall ==
    /\ pc = "idle"
    /\ \E data \in CardRequests :
         IF "balance" \notin DOMAIN data
         THEN /\ debt' = [fn |-> "api_credit_card", data |-> data,
                          response |-> Unprocessable("'balance'")]
              /\ pc' = "done"
         ELSE /\ debt' = [fn            |-> "api_credit_card",
                          data          |-> data,
                          balance       |-> data.balance,
                          monthly_rate  |-> RDiv(RDiv(Get(data, "apr", US_CC_AVG_APR),
                                                      RI(100)), RI(12)),
                          min_pct       |-> Get(data, "minimum_pct", RI(2)),
                          min_floor     |-> Get(data, "minimum_floor", RI(25)),
                          extra_payment |-> Get(data, "extra_payment", Zero),
                          run           |-> 1,
                          sim           |-> PayoffEntry(data.balance,
                                                       RunExtra(1, Get(data, "extra_payment",
                                                                       Zero)))]
              /\ pc' = "payoff_sim"
    /\ UNCHANGED <<mort, tax, inv, budget, tables, served>>

PayoffSimIter ==
    /\ pc = "payoff_sim"
    /\ PayoffLoopCond(debt.sim)
    /\ debt' = [debt EXCEPT !.sim = PayoffStep(debt.sim, debt.monthly_rate,
                                               debt.min_pct, debt.min_floor)]
    /\ UNCHANGED <<pc, mort, tax, inv, budget, tables, served>>

\* The first run returns and the second is entered.
PayoffSimReturnMin ==
    /\ pc = "payoff_sim"
    /\ ~PayoffLoopCond(debt.sim)
    /\ debt.run = 1
    /\ debt' = [fn |-> "api_credit_card", data |-> debt.data,
                balance |-> debt.balance, monthly_rate |-> debt.monthly_rate,
                min_pct |-> debt.min_pct, min_floor |-> debt.min_floor,
                extra_payment |-> debt.extra_payment,
                run |-> 2,
                min |-> PayoffReturn(debt.sim),
                sim |-> PayoffEntry(debt.balance, RunExtra(2, debt.extra_payment))]
    /\ UNCHANGED <<pc, mort, tax, inv, budget, tables, served>>

\* The second run returns and the response is built.
PayoffSimReturnExtra ==
    /\ pc = "payoff_sim"
    /\ ~PayoffLoopCond(debt.sim)
    /\ debt.run = 2
    /\ debt' = [fn |-> "api_credit_card", data |-> debt.data,
                balance |-> debt.balance, monthly_rate |-> debt.monthly_rate,
                min_pct |-> debt.min_pct, min_floor |-> debt.min_floor,
                extra_payment |-> debt.extra_payment,
                min |-> debt.min,
                extra |-> PayoffReturn(debt.sim),
                response |-> CreditCardResponse(debt.min, PayoffReturn(debt.sim))]
    /\ pc' = "done"
    /\ UNCHANGED <<mort, tax, inv, budget, tables, served>>

DebtNext == CreditCardCall \/ PayoffSimIter \/ PayoffSimReturnMin \/ PayoffSimReturnExtra

SpecDebt == Init /\ [][DebtNext]_vars

\* ------------------------------------------------------------------------
\* FIRE goal-seek: investment.py
\* ------------------------------------------------------------------------

\* Python's None and a value in its place.
None == <<>>
Some(v) == <<v>>

FireYearCap == 70

\* for _ in range(12): the k passes left of a year.  As in payoff_sim, the
\* products are rounded to the grid.
RECURSIVE FireMonths(_, _, _, _, _, _)
FireMonths(k, balance, fire_target, monthly_return, monthly_savings, inflation_monthly) ==
    IF k = 0 THEN [balance |-> balance, fire_target |-> fire_target]
    ELSE Val({ FireMonths(k - 1, b, t, monthly_return, monthly_savings, inflation_monthly)
               : b \in {RAdd(balance, RAdd(FlMul(balance, monthly_return), monthly_savings))},
                 t \in {FlMul(fire_target, RAdd(One, inflation_monthly))} })

\* The loop without its ceiling of 70 years.
FireLoopCondNoCap(f) == ~f.broke

\* The loop leaves when it broke or range(1, 71) is used up.
FireLoopCond(f) == f.yr <= FireYearCap /\ ~f.broke

\* A pass that records the year reached but goes on to the next year.
FireYearStepNoBreak(f) ==
    Val({ [f EXCEPT !.balance       = m.balance,
                    !.fire_target   = m.fire_target,
                    !.yearly        = Append(@, [year        |-> f.yr,
                                                 age         |-> f.current_age + f.yr,
                                                 balance     |-> Round(m.balance, 2),
                                                 fire_target |-> Round(m.fire_target, 2)]),
                    !.years_to_fire = IF f.years_to_fire = None
                                         /\ RLe(m.fire_target, m.balance)
                                      THEN Some(f.yr) ELSE @,
                    !.fire_age      = IF f.years_to_fire = None
                                         /\ RLe(m.fire_target, m.balance)
                                      THEN Some(f.current_age + f.yr) ELSE @,
                    !.yr            = f.yr + 1]
          : m \in {FireMonths(12, f.balance, f.fire_target, f.monthly_return,
                              f.monthly_savings, f.inflation_monthly)} })

\* One pass of `for yr in range(1, 71)`; broke says the pass ended in break.
FireYearStep(f) ==
    Val({ Val({
          [f EXCEPT !.balance       = m.balance,
                    !.fire_target   = m.fire_target,
                    !.yearly        = Append(@, [year        |-> f.yr,
                                                 age         |-> f.current_age + f.yr,
                                                 balance     |-> Round(m.balance, 2),
                                                 fire_target |-> Round(m.fire_target, 2)]),
                    !.years_to_fire = IF reached THEN Some(f.yr) ELSE @,
                    !.fire_age      = IF reached THEN Some(f.current_age + f.yr) ELSE @,
                    !.broke         = reached,
                    !.yr            = IF reached THEN f.yr ELSE f.yr + 1]
          : reached \in {f.years_to_fire = None /\ RLe(m.fire_target, m.balance)} })
          : m \in {FireMonths(12, f.balance, f.fire_target, f.monthly_return,
                              f.monthly_savings, f.inflation_monthly)} })

FireResponse(f) ==
    Ok([fire_number          |-> Round(f.fire_number, 0),
        years_to_fire        |-> f.years_to_fire,
        fire_age             |-> f.fire_age,
        current_progress_pct |-> Round(f.current_progress, 1),
        monthly_expenses     |-> Round(RDiv(f.annual_expenses, RI(12)), 2),
        yearly_projection    |-> f.yearly])

Ages == {30, 60}
AnnualExpenses == {Zero, RI(40)}
CurrentSavings == {Zero, RI(500), RI(1000)}
AnnualSavings == {Zero, RI(12), RI(120)}
ExpectedReturns == {Zero, RI(7)}
WithdrawalRates == {Zero, RI(4)}
InflationRates == {Zero, D(25, 1)}

FireRequests ==
    [current_age : Ages, annual_expenses : AnnualExpenses,
     current_savings : CurrentSavings, annual_savings : AnnualSavings,
     expected_return : ExpectedReturns, safe_withdrawal_rate : WithdrawalRates,
     inflation_rate : InflationRates]
        \cup [current_age : Ages, annual_expenses : AnnualExpenses]
        \cup [current_age : Ages]
        \cup [annual_expenses : AnnualExpenses]

\* api_fire up to its loop.
FireCall ==
    /\ pc = "idle"
    /\ \E data \in FireRequests :
         IF "current_age" \notin DOMAIN data
         THEN /\ inv' = [fn |-> "api_fire", data |-> data,
                         response |-> Unprocessable("'current_age'")]
              /\ pc' = "done"
         ELSE IF "annual_expenses" \notin DOMAIN data
         THEN /\ inv' = [fn |-> "api_fire", data |-> data,
                         response |-> Unprocessable("'annual_expenses'")]
              /\ pc' = "done"
         ELSE IF Get(data, "safe_withdrawal_rate", RI(4)) = Zero
         THEN /\ inv' = [fn |-> "api_fire", data |-> data,
                         result |-> Raised("ZeroDivisionError")]
              /\ pc' = "raised"
         ELSE \E fire_number \in {RDiv(data.annual_expenses,
                                       RDiv(Get(data, "safe_withdrawal_rate", RI(4)),
                                            RI(100)))} :
              /\ inv' = [fn                |-> "api_fire",
                         data              |-> data,
                         current_age       |-> data.current_age,
                         annual_expenses   |-> data.annual_expenses,
                         fire_number       |-> fire_number,
                         current_progress  |->
                             IF RLt(Zero, fire_number)
                             THEN RMul(RDiv(Get(data, "current_savings", Zero), fire_number),
                                       RI(100))
                             ELSE Zero,
                         monthly_savings   |-> RDiv(Get(data, "annual_savings", Zero), RI(12)),
                         monthly_return    |-> RDiv(RDiv(Get(data, "expected_return", RI(7)),
                                                         RI(100)), RI(12)),
                         inflation_monthly |-> RDiv(RDiv(Get(data, "inflation_rate", D(25, 1)),
                                                         RI(100)), RI(12)),
                         balance           |-> Get(data, "current_savings", Zero),
                         fire_target       |-> fire_number,
                         years_to_fire     |-> None,
                         fire_age          |-> None,
                         yearly            |-> <<>>,
                         broke             |-> FALSE,
                         yr                |-> 1]
              /\ pc' = "fire_loop"
    /\ UNCHANGED <<mort, tax, debt, budget, tables, served>>

FireYearIter ==
    /\ pc = "fire_loop"
    /\ FireLoopCond(inv)
    /\ inv' = FireYearStep(inv)
    /\ UNCHANGED <<pc, mort, tax, debt, budget, tables, served>>

FireReturn ==
    /\ pc = "fire_loop"
    /\ ~FireLoopCond(inv)
    /\ inv' = inv @@ [response |-> FireResponse(inv)]
    /\ pc' = "done"
    /\ UNCHANGED <<mort, tax, debt, budget, tables, served>>

FireNext == FireCall \/ FireYearIter \/ FireReturn

SpecFire == Init /\ [][FireNext]_vars

\* ------------------------------------------------------------------------
\* Rent vs buy: mortgage.py
\* ------------------------------------------------------------------------

\* A quotient or difference entering grid arithmetic, rounded to the grid as
\* a product is.
Fl(x) == Round(x, GridDigits)

\* _amortize as one call: the rows of passes m .. term_months appended to
\* schedule.
RECURSIVE AmortizeRows(_, _, _, _, _, _)
AmortizeRows(balance, r, payment, m, term_months, schedule) ==
    IF m > term_months THEN schedule
    ELSE Val({ AmortizeRows(s.balance, r, payment, m + 1, term_months,
                            Append(schedule, s.row))
               : s \in {AmortizeStep(balance, r, payment, m)} })

\* _amortize(principal, annual_rate_pct, term_months), its payment given.
_amortize(principal, annual_rate_pct, term_months, payment) ==
    AmortizeRows(principal, RDiv(RDiv(annual_rate_pct, RI(100)), RI(12)), payment, 1,
                 term_months, <<>>)

\* amort[(yr - 1) * 12: yr * 12]
YearChunk(amort, yr) ==
    IF (yr - 1) * 12 >= Len(amort) THEN <<>>
    ELSE SubSeq(amort, (yr - 1) * 12 + 1, IF yr * 12 < Len(amort) THEN yr * 12 ELSE Len(amort))

RECURSIVE SumField(_, _)
SumField(rows, field) ==
    IF rows = <<>> THEN Zero ELSE RAdd(rows[1][field], SumField(Tail(rows), field))

\* for _ in range(12): the k passes left of the renter's year.
RECURSIVE RenterMonths(_, _, _, _)
RenterMonths(k, renter_portfolio, monthly_invest_ret, monthly_diff) ==
    IF k = 0 THEN renter_portfolio
    ELSE Val({ RenterMonths(k - 1,
                            IF RLt(Zero, monthly_diff) THEN RAdd(grown, monthly_diff)
                            ELSE grown,
                            monthly_invest_ret, monthly_diff)
               : grown \in {FlMul(renter_portfolio, RAdd(One, monthly_invest_ret))} })

RvbThreshold == 5000
RvbYearsCap == 30

\* The first year taken as break-even even when a year before it was one.
RvbYearStepLastBreakeven(f) ==
    Val({ Val({ Val({
        [f EXCEPT !.home_value           = home_value,
                  !.buyer_equity         = RSub(home_value, balance_end),
                  !.cumulative_buy_cost  =
                      RAdd(@, RAdd(RAdd(RAdd(SumField(chunk, "interest"),
                                             RDiv(RMul(f.home_price, f.prop_tax_rate), RI(100))),
                                        RDiv(RMul(f.home_price, f.maintenance_pct), RI(100))),
                                   RMul(f.insurance_monthly, RI(12)))),
                  !.cumulative_rent_cost = RAdd(@, RMul(f.rent, RI(12))),
                  !.rent                 = FlMul(f.rent, RAdd(One, RDiv(f.annual_rent_increase,
                                                                         RI(100)))),
                  !.renter_portfolio     = renter_portfolio,
                  !.breakeven_year       = IF RLe(rent_net, buy_net) THEN Some(f.yr) ELSE @,
                  !.yearly               =
                      Append(@, [year                 |-> f.yr,
                                 buy_net_worth        |-> buy_net,
                                 rent_net_worth       |-> rent_net,
                                 cumulative_buy_cost  |->
                                     Round(RAdd(f.cumulative_buy_cost,
                                                RAdd(RAdd(RAdd(SumField(chunk, "interest"),
                                                               RDiv(RMul(f.home_price,
                                                                         f.prop_tax_rate),
                                                                    RI(100))),
                                                          RDiv(RMul(f.home_price,
                                                                    f.maintenance_pct),
                                                               RI(100))),
                                                     RMul(f.insurance_monthly, RI(12)))), 2),
                                 cumulative_rent_cost |->
                                     Round(RAdd(f.cumulative_rent_cost,
                                                RMul(f.rent, RI(12))), 2)]),
                  !.yr                   = f.yr + 1]
        : buy_net  \in {Round(RSub(home_value, balance_end), 2)},
          rent_net \in {Round(renter_portfolio, 2)} })
        : balance_end      \in {IF chunk # <<>> THEN chunk[Len(chunk)].balance ELSE f.loan},
          home_value       \in {FlMul(f.home_value,
                                      RAdd(One, RDiv(f.annual_home_growth, RI(100))))},
          renter_portfolio \in {RenterMonths(12, f.renter_portfolio, f.monthly_invest_ret,
                                             Fl(RSub(f.monthly_pmt,
                                                     RDiv(RMul(f.rent, RI(12)), RI(12)))))} })
        : chunk \in {YearChunk(f.amort, f.yr)} })

\* One pass of `for yr in range(1, years + 1)`.
RvbYearStep(f) ==
    Val({ Val({ Val({
        [f EXCEPT !.home_value           = home_value,
                  !.buyer_equity         = RSub(home_value, balance_end),
                  !.cumulative_buy_cost  =
                      RAdd(@, RAdd(RAdd(RAdd(SumField(chunk, "interest"),
                                             RDiv(RMul(f.home_price, f.prop_tax_rate), RI(100))),
                                        RDiv(RMul(f.home_price, f.maintenance_pct), RI(100))),
                                   RMul(f.insurance_monthly, RI(12)))),
                  !.cumulative_rent_cost = RAdd(@, RMul(f.rent, RI(12))),
                  !.rent                 = FlMul(f.rent, RAdd(One, RDiv(f.annual_rent_increase,
                                                                         RI(100)))),
                  !.renter_portfolio     = renter_portfolio,
                  !.breakeven_year       = IF f.breakeven_year = None /\ RLe(rent_net, buy_net)
                                           THEN Some(f.yr) ELSE @,
                  !.yearly               =
                      Append(@, [year                 |-> f.yr,
                                 buy_net_worth        |-> buy_net,
                                 rent_net_worth       |-> rent_net,
                                 cumulative_buy_cost  |->
                                     Round(RAdd(f.cumulative_buy_cost,
                                                RAdd(RAdd(RAdd(SumField(chunk, "interest"),
                                                               RDiv(RMul(f.home_price,
                                                                         f.prop_tax_rate),
                                                                    RI(100))),
                                                          RDiv(RMul(f.home_price,
                                                                    f.maintenance_pct),
                                                               RI(100))),
                                                     RMul(f.insurance_monthly, RI(12)))), 2),
                                 cumulative_rent_cost |->
                                     Round(RAdd(f.cumulative_rent_cost,
                                                RMul(f.rent, RI(12))), 2)]),
                  !.yr                   = f.yr + 1]
        : buy_net  \in {Round(RSub(home_value, balance_end), 2)},
          rent_net \in {Round(renter_portfolio, 2)} })
        : balance_end      \in {IF chunk # <<>> THEN chunk[Len(chunk)].balance ELSE f.loan},
          home_value       \in {FlMul(f.home_value,
                                      RAdd(One, RDiv(f.annual_home_growth, RI(100))))},
          renter_portfolio \in {RenterMonths(12, f.renter_portfolio, f.monthly_invest_ret,
                                             Fl(RSub(f.monthly_pmt,
                                                     RDiv(RMul(f.rent, RI(12)), RI(12)))))} })
        : chunk \in {YearChunk(f.amort, f.yr)} })

\* The thresholds of the recommendation the wrong way round.
RecommendationSwapped(diff) ==
    IF RLt(RI(RvbThreshold), diff) THEN "RENT"
    ELSE IF RLt(diff, RI(0 - RvbThreshold)) THEN "BUY"
    ELSE "NEUTRAL"

Recommendation(diff) ==
    IF RLt(RI(RvbThreshold), diff) THEN "BUY"
    ELSE IF RLt(diff, RI(0 - RvbThreshold)) THEN "RENT"
    ELSE "NEUTRAL"

RvbResponse(f) ==
    Val({ Ok([breakeven_year            |-> f.breakeven_year,
              buy_net_worth_at_horizon  |-> last.buy_net_worth,
              rent_net_worth_at_horizon |-> last.rent_net_worth,
              recommendation            |-> Recommendation(RSub(last.buy_net_worth,
                                                                last.rent_net_worth)),
              yearly_comparison         |-> f.yearly])
          : last \in {f.yearly[Len(f.yearly)]} })

RvbRequests ==
    [home_price : {RI(6250), RI(20000)}, down_payment_pct : {RI(20), RI(75)},
     mortgage_rate : {Zero}, term_years : {1, 2},
     annual_home_growth : {RI(0 - 60), RI(0 - 50), Zero, RI(4)},
     monthly_rent : {RI(500), RI(1500)}, annual_rent_increase : {Zero, RI(3)},
     investment_return : {Zero, RI(7)}, years : {0, 1, 3}]
        \cup [home_price : {RI(20000)}, down_payment_pct : {RI(20)},
              mortgage_rate : {Zero}, term_years : {1},
              annual_home_growth : {Zero, RI(4)},
              monthly_rent : {RI(1500)}, annual_rent_increase : {Zero},
              investment_return : {Zero, RI(7)}, years : {31}]
        \cup [home_price : {RI(20000)}, monthly_rent : {RI(1500)}, term_years : {0}]
        \cup [home_price : {RI(20000)}]
        \cup [monthly_rent : {RI(1500)}]

\* The renter's portfolio carried over from the answer before.
RvbStartPortfolioCarriedOver(down_payment) ==
    IF served # <<>> /\ served[Len(served)].outcome.ok
    THEN served[Len(served)].outcome.data.rent_net_worth_at_horizon
    ELSE down_payment

\* renter_portfolio = down_payment: a request starts from its own inputs.
RvbStartPortfolio(down_payment) == down_payment

\* api_rent_vs_buy up to its loop, on a request of `requests`.
RvbCallWith(requests) ==
    /\ pc = "idle"
    /\ \E data \in requests :
         IF "home_price" \notin DOMAIN data
         THEN /\ mort' = [fn |-> "api_rent_vs_buy", data |-> data,
                          response |-> Unprocessable("'home_price'")]
              /\ pc' = "done"
         ELSE IF "monthly_rent" \notin DOMAIN data
         THEN /\ mort' = [fn |-> "api_rent_vs_buy", data |-> data,
                          response |-> Unprocessable("'monthly_rent'")]
              /\ pc' = "done"
         ELSE \E down_payment \in {RDiv(RMul(data.home_price,
                                             Get(data, "down_payment_pct", RI(20))),
                                        RI(100))} :
              \E p \in {_monthly_payment(RSub(data.home_price, down_payment),
                                         Get(data, "mortgage_rate", D(67, 1)),
                                         Get(data, "term_years", 30) * 12)} :
                IF p.kind = "raise"
                THEN /\ mort' = [fn |-> "api_rent_vs_buy", data |-> data, result |-> p]
                     /\ pc' = "raised"
                ELSE /\ mort' =
                          [fn                   |-> "api_rent_vs_buy",
                           data                 |-> data,
                           years                |-> IF Get(data, "years", 10) < RvbYearsCap
                                                    THEN Get(data, "years", 10)
                                                    ELSE RvbYearsCap,
                           home_price           |-> data.home_price,
                           down_payment         |-> down_payment,
                           loan                 |-> RSub(data.home_price, down_payment),
                           monthly_pmt          |-> p.value,
                           annual_home_growth   |-> Get(data, "annual_home_growth", RI(4)),
                           annual_rent_increase |-> Get(data, "annual_rent_increase", RI(3)),
                           prop_tax_rate        |-> Get(data, "property_tax_rate", D(12, 1)),
                           maintenance_pct      |-> Get(data, "maintenance_pct", One),
                           insurance_monthly    |-> Get(data, "insurance_monthly", RI(150)),
                           monthly_invest_ret   |->
                               RDiv(RDiv(Get(data, "investment_return", RI(7)), RI(100)),
                                    RI(12)),
                           renter_portfolio     |-> RvbStartPortfolio(down_payment),
                           buyer_equity         |-> down_payment,
                           home_value           |-> data.home_price,
                           rent                 |-> data.monthly_rent,
                           yearly               |-> <<>>,
                           cumulative_buy_cost  |-> down_payment,
                           cumulative_rent_cost |-> Zero,
                           breakeven_year       |-> None,
                           amort                |->
                               _amortize(RSub(data.home_price, down_payment),
                                         Get(data, "mortgage_rate", D(67, 1)),
                                         Get(data, "term_years", 30) * 12, p.value),
                           yr                   |-> 1]
                     /\ pc' = "rvb_loop"
    /\ UNCHANGED <<tax, debt, inv, budget, tables, served>>

RvbCall == RvbCallWith(RvbRequests)

RvbYearIter ==
    /\ pc = "rvb_loop"
    /\ mort.yr <= mort.years
    /\ mort' = RvbYearStep(mort)
    /\ UNCHANGED <<pc, tax, debt, inv, budget, tables, served>>

\* After the loop: yearly[-1] of an empty list raises, else the response.
RvbReturn ==
    /\ pc = "rvb_loop"
    /\ mort.yr > mort.years
    /\ IF mort.yearly = <<>>
       THEN /\ mort' = mort @@ [result |-> Raised("IndexError")]
            /\ pc' = "raised"
       ELSE /\ mort' = mort @@ [response |-> RvbResponse(mort)]
            /\ pc' = "done"
    /\ UNCHANGED <<tax, debt, inv, budget, tables, served>>

RvbNext == RvbCall \/ RvbYearIter \/ RvbReturn

SpecRvb == Init /\ [][RvbNext]_vars

\* ------------------------------------------------------------------------
\* Request values and float()
\* ------------------------------------------------------------------------

\* A JSON number is its rational; a JSON string that is no number is the
\* 1-tuple of its text; JSON null is None.
NotANumber == <<"abc">>

IsNumber(v) == Len(v) = 2

\* str(exc) of the exception float(v) raises on a v that is no number.
FloatError(v) ==
    IF v = None THEN "float() argument must be a string or a real number, not 'NoneType'"
    ELSE "could not convert string to float: 'abc'"

\* ------------------------------------------------------------------------
\* Capital gains: tax.py
\* ------------------------------------------------------------------------

\* for upper, r in brackets: if income <= upper: ...; break
RECURSIVE LtcgLoop(_, _, _, _)
LtcgLoop(gross_gain, income, brackets, i) ==
    IF i > Len(brackets) THEN [gain_tax |-> Zero, rate |-> Zero]
    ELSE IF RLe(income, brackets[i][1])
         THEN [gain_tax |-> RMul(gross_gain, brackets[i][2]),
               rate     |-> RMul(brackets[i][2], RI(100))]
         ELSE LtcgLoop(gross_gain, income, brackets, i + 1)

\* The holding-period test the wrong way round.
IsLongTermInverted(holding_months) == RLt(holding_months, RI(tables.US_LTCG_HOLDING_MONTHS))

IsLongTerm(holding_months) == RLe(RI(tables.US_LTCG_HOLDING_MONTHS), holding_months)

\* The two branches of _us_cgt: gain_tax, rate and label.  sides.with and
\* sides.without are the tie sides of the two _apply_brackets totals.
UsGainTax(gross_gain, income, filing, holding_months, sides) ==
    IF ~IsLongTerm(holding_months)
    THEN Val({ [gain_tax |-> gain_tax,
                rate     |-> IF RLt(Zero, gross_gain)
                             THEN RMul(RDiv(gain_tax, gross_gain), RI(100)) ELSE Zero,
                label    |-> "STCG"]
               : gain_tax \in
                   {RSub(_apply_brackets(RAdd(income, gross_gain),
                                         tables.US_TAX_BRACKETS[UsFiling(filing)],
                                         [band |-> "down", total |-> sides.with]).tax,
                         _apply_brackets(income, tables.US_TAX_BRACKETS[UsFiling(filing)],
                                         [band |-> "down", total |-> sides.without]).tax)} })
    ELSE Val({ [gain_tax |-> l.gain_tax, rate |-> l.rate, label |-> "LTCG"]
               : l \in {LtcgLoop(gross_gain, income,
                                 IF filing \in DOMAIN tables.US_LTCG_BRACKETS
                                 THEN tables.US_LTCG_BRACKETS[filing]
                                 ELSE tables.US_LTCG_BRACKETS["single"], 1)} })

\* _us_cgt; regime_notes, a sentence built from the same values, is left out.
_us_cgt(gross_gain, income, filing, holding_months, asset_type, sides) ==
    Val({ Val({ Val({
        [gain           |-> Round(gross_gain, 2),
         is_long_term   |-> IsLongTerm(holding_months),
         tax_rate       |-> RoundTie(g.rate, 1, sides.field),
         tax_owed       |-> RoundTie(total_tax, 2, sides.field),
         net_proceeds   |-> RoundTie(RSub(gross_gain, total_tax), 2, sides.field),
         classification |-> g.label,
         breakdown      |-> [gross_gain        |-> Round(gross_gain, 2),
                             exemption         |-> Zero,
                             taxable_gain      |-> Round(gross_gain, 2),
                             capital_gains_tax |-> RoundTie(g.gain_tax, 2, sides.field),
                             niit              |-> RoundTie(niit, 2, sides.field),
                             total_tax         |-> RoundTie(total_tax, 2, sides.field)]]
        : total_tax \in {RAdd(g.gain_tax, niit)} })
        : niit \in {RMul(RMin(RMax(RSub(RAdd(income, gross_gain),
                                        IF filing \in DOMAIN tables.US_NIIT_THRESHOLD
                                        THEN tables.US_NIIT_THRESHOLD[filing] ELSE RI(200000)),
                                   Zero),
                              gross_gain),
                         tables.US_NIIT_RATE)} })
        : g \in {UsGainTax(gross_gain, income, filing, holding_months, sides)} })

\* _uk_cgt
_uk_cgt(gross_gain, income, asset_type, sides) ==
    Val({ Val({
        [gain           |-> Round(gross_gain, 2),
         is_long_term   |-> TRUE,
         tax_rate       |-> Round(RMul(rate, RI(100)), 1),
         tax_owed       |-> RoundTie(tax_, 2, sides.field),
         net_proceeds   |-> RoundTie(RSub(gross_gain, tax_), 2, sides.field),
         classification |-> "CGT",
         breakdown      |-> [gross_gain   |-> Round(gross_gain, 2),
                             exemption    |-> Round(RMin(gross_gain, tables.UK_CGT.annual_exempt), 2),
                             taxable_gain |-> Round(taxable_gain, 2),
                             tax          |-> RoundTie(tax_, 2, sides.field)]]
        : tax_ \in {RMul(taxable_gain, rate)} })
        : taxable_gain \in {RMax(RSub(gross_gain, tables.UK_CGT.annual_exempt), Zero)},
          rate         \in {IF RLt(tables.UK_CGT.higher_rate_threshold, income)
                            THEN tables.UK_CGT.higher_rate ELSE tables.UK_CGT.basic_rate} })

\* The branch of _india_cgt on the asset type and the holding period.
IndiaGain(gross_gain, asset_type, holding_months) ==
    IF asset_type = "equity"
    THEN IF RLe(tables.INDIA_CGT.equity_holding_months, holding_months)
         THEN [is_lt   |-> TRUE,
               exempt  |-> tables.INDIA_CGT.equity_ltcg_exemption,
               taxable |-> RMax(RSub(gross_gain, tables.INDIA_CGT.equity_ltcg_exemption), Zero),
               rate    |-> tables.INDIA_CGT.equity_ltcg_rate,
               label   |-> "LTCG"]
         ELSE [is_lt |-> FALSE, exempt |-> Zero, taxable |-> gross_gain,
               rate  |-> tables.INDIA_CGT.equity_stcg_rate, label |-> "STCG"]
    ELSE IF RLe(tables.INDIA_CGT.property_holding_months, holding_months)
         THEN [is_lt |-> TRUE, exempt |-> Zero, taxable |-> gross_gain,
               rate  |-> tables.INDIA_CGT.property_ltcg_rate, label |-> "LTCG"]
         ELSE [is_lt |-> FALSE, exempt |-> Zero, taxable |-> gross_gain,
               rate  |-> D(30, 2), label |-> "STCG"]

\* _india_cgt; regime_notes is left out.
_india_cgt(gross_gain, asset_type, holding_months, sides) ==
    Val({ Val({ Val({
        [gain           |-> Round(gross_gain, 2),
         is_long_term   |-> g.is_lt,
         tax_rate       |-> Round(RMul(g.rate, RI(100)), 1),
         tax_owed       |-> RoundTie(total, 2, sides.field),
         net_proceeds   |-> RoundTie(RSub(gross_gain, total), 2, sides.field),
         classification |-> g.label,
         breakdown      |-> [gross_gain   |-> Round(gross_gain, 2),
                             exemption    |-> Round(g.exempt, 2),
                             taxable_gain |-> Round(g.taxable, 2),
                             base_tax     |-> RoundTie(tax_, 2, sides.field),
                             cess         |-> RoundTie(cess, 2, sides.field),
                             total_tax    |-> RoundTie(total, 2, sides.field)]]
        : total \in {RAdd(tax_, cess)} })
        : tax_ \in {RMul(g.taxable, g.rate)},
          cess \in {RMul(RMul(g.taxable, g.rate), tables.INDIA_NEW_REGIME.cess_rate)} })
        : g \in {IndiaGain(gross_gain, asset_type, holding_months)} })

\* api_capital_gains on the request body `data`.
api_capital_gains(data, sides) ==
    IF "purchase_price" \notin DOMAIN data THEN Unprocessable("'purchase_price'")
    ELSE IF "sale_price" \notin DOMAIN data THEN Unprocessable("'sale_price'")
    ELSE Val({
        CASE country = "US" ->
               Ok(_us_cgt(gross_gain, Get(data, "annual_income", RI(75000)),
                          Lower(Get(data, "filing_status", "single")),
                          Get(data, "holding_months", RI(13)),
                          Get(data, "asset_type", "equity"), sides))
          [] country = "UK" ->
               Ok(_uk_cgt(gross_gain, Get(data, "annual_income", RI(75000)),
                          Get(data, "asset_type", "equity"), sides))
          [] country = "IN" ->
               Ok(_india_cgt(gross_gain, Get(data, "asset_type", "equity"),
                             Get(data, "holding_months", RI(13)), sides))
          [] OTHER -> Unprocessable("Country must be US, UK, or IN")
        : country    \in {Upper(Get(data, "country", "US"))},
          gross_gain \in {RSub(data.sale_price, data.purchase_price)} })

CgtSides == [with : Sides, without : Sides, field : Sides]

AssetTypes == {"equity", "property", "other", "gold", "EQUITY"}

SalePrices == {RI(5000), RI(10000), D(1234567, 2), RI(30000), RI(200000)}

CgtIncomes == {Zero, RI(48350), RI(48351), RI(75000), RI(195000), RI(533400), RI(600000)}

CgtRequests ==
    [country : {"US"}, asset_type : {"equity", "gold"}, purchase_price : {RI(10000)},
     sale_price : SalePrices, holding_months : {RI(11), D(119, 1), RI(12)},
     annual_income : CgtIncomes, filing_status : {"single", "mfj", "hoh"}]
        \cup [country : {"UK"}, asset_type : {"equity", "gold"}, purchase_price : {RI(10000)},
              sale_price : SalePrices, annual_income : {Zero, RI(50270), RI(50271)}]
        \cup [country : {"IN", "in"}, asset_type : AssetTypes, purchase_price : {RI(10000)},
              sale_price : SalePrices, holding_months : {RI(11), RI(12), RI(23), RI(24)}]
        \cup [country : {"FR"}, asset_type : {"equity", "gold"}, purchase_price : {RI(10000)},
              sale_price : {RI(30000)}]
        \cup [purchase_price : {RI(10000)}, sale_price : {RI(30000)}]
        \cup [purchase_price : {RI(10000)}]
        \cup [sale_price : {RI(30000)}]

CapitalGainsCallWith(requests, choices) ==
    /\ pc = "idle"
    /\ \E data \in requests : \E sides \in choices :
         tax' = [fn |-> "api_capital_gains", data |-> data, sides |-> sides,
                 response |-> api_capital_gains(data, sides)]
    /\ pc' = "done"
    /\ UNCHANGED <<mort, debt, inv, budget, tables, served>>

CapitalGainsCall == CapitalGainsCallWith(CgtRequests, CgtSides)

\* ------------------------------------------------------------------------
\* Freelance tax: tax.py
\* ------------------------------------------------------------------------

\* _us_freelance; quarterly_due_dates, a constant list of dates, is left out.
_us_freelance(gross, expenses, filing, state, sides) ==
    Val({ Val({ Val({ Val({ Val({
        [net_profit          |-> Round(net_profit, 2),
         taxable_income      |-> RoundTie(taxable_income, 2, sides.field),
         income_tax          |-> Round(income_tax, 2),
         self_employment_tax |-> RoundTie(se_tax, 2, sides.field),
         se_tax_deduction    |-> RoundTie(RDiv(se_tax, RI(2)), 2, sides.field),
         state_tax           |-> RoundTie(state_tax, 2, sides.field),
         total_tax           |-> RoundTie(total_tax, 2, sides.field),
         effective_rate      |-> RoundTie(IF RLt(Zero, gross)
                                          THEN RMul(RDiv(total_tax, gross), RI(100))
                                          ELSE Zero, 2, sides.field),
         take_home           |-> RoundTie(RSub(net_profit, total_tax), 2, sides.field),
         quarterly_estimate  |-> RoundTie(RDiv(total_tax, RI(4)), 2, sides.field)]
        : total_tax \in {RAdd(RAdd(income_tax, se_tax), state_tax)} })
        : income_tax \in {_apply_brackets(taxable_income, tables.US_TAX_BRACKETS[UsFiling(filing)],
                                          sides).tax},
          state_tax  \in {RMul(net_profit,
                               IF state \in DOMAIN tables.US_STATE_TAX THEN tables.US_STATE_TAX[state]
                               ELSE tables.US_STATE_TAX.other)} })
        : taxable_income \in
              {RMax(RSub(RSub(net_profit, RDiv(se_tax, RI(2))),
                         IF filing \in DOMAIN tables.US_STANDARD_DEDUCTION
                         THEN tables.US_STANDARD_DEDUCTION[filing] ELSE RI(15000)),
                    Zero)} })
        : se_tax \in {RMul(RMul(net_profit, D(9235, 4)), D(153, 3))} })
        : net_profit \in {RSub(gross, expenses)} })

UkClass4(net_profit) ==
    RAdd(IF RLt(tables.UK_NI_SELF_EMPLOYED.class4_lower, net_profit)
         THEN RSub(RMul(RMin(net_profit, tables.UK_NI_SELF_EMPLOYED.class4_upper),
                        tables.UK_NI_SELF_EMPLOYED.class4_rate_main),
                   RMul(tables.UK_NI_SELF_EMPLOYED.class4_lower,
                        tables.UK_NI_SELF_EMPLOYED.class4_rate_main))
         ELSE Zero,
         IF RLt(tables.UK_NI_SELF_EMPLOYED.class4_upper, net_profit)
         THEN RMul(RSub(net_profit, tables.UK_NI_SELF_EMPLOYED.class4_upper),
                   tables.UK_NI_SELF_EMPLOYED.class4_rate_upper)
         ELSE Zero)

\* _uk_freelance; quarterly_due_dates is left out.
_uk_freelance(gross, expenses, sides) ==
    Val({ Val({ Val({ Val({
        [net_profit          |-> Round(net_profit, 2),
         taxable_income      |-> Round(taxable, 2),
         income_tax          |-> Round(income_tax, 2),
         uk_class2_nic       |-> Round(class2, 2),
         uk_class4_nic       |-> RoundTie(class4, 2, sides.field),
         total_tax           |-> RoundTie(total_tax, 2, sides.field),
         effective_rate      |-> RoundTie(IF RLt(Zero, gross)
                                          THEN RMul(RDiv(total_tax, gross), RI(100))
                                          ELSE Zero, 2, sides.field),
         take_home           |-> RoundTie(RSub(net_profit, total_tax), 2, sides.field),
         self_employment_tax |-> RoundTie(RAdd(class2, class4), 2, sides.field),
         quarterly_estimate  |-> RoundTie(RDiv(total_tax, RI(2)), 2, sides.field)]
        : total_tax \in {RAdd(RAdd(income_tax, class2), class4)} })
        : income_tax \in {_apply_brackets(taxable, tables.UK_TAX_BRACKETS, sides).tax} })
        : class2  \in {IF RLt(RI(12570), net_profit) THEN tables.UK_NI_SELF_EMPLOYED.class2_annual
                       ELSE Zero},
          class4  \in {UkClass4(net_profit)},
          taxable \in {RMax(RSub(net_profit,
                                 RMin(tables.UK_PERSONAL_ALLOWANCE,
                                      RSub(tables.UK_PERSONAL_ALLOWANCE,
                                           RDiv(RMax(RSub(net_profit, tables.UK_PA_TAPER_START),
                                                     Zero), RI(2))))),
                            Zero)} })
        : net_profit \in {RSub(gross, expenses)} })

AdvanceTax(total_tax, sides) ==
    << [due |-> "June 15", pct |-> 15,
        amount |-> RoundTie(RMul(total_tax, D(15, 2)), 2, sides.field)],
       [due |-> "September 15", pct |-> 45,
        amount |-> RoundTie(RMul(total_tax, D(30, 2)), 2, sides.field)],
       [due |-> "December 15", pct |-> 75,
        amount |-> RoundTie(RMul(total_tax, D(30, 2)), 2, sides.field)],
       [due |-> "March 15", pct |-> 100,
        amount |-> RoundTie(RMul(total_tax, D(25, 2)), 2, sides.field)] >>

\* _india_freelance; quarterly_due_dates repeats the dates of the schedule.
_india_freelance(gross, expenses, presumptive, sides) ==
    Val({ Val({ Val({ Val({ Val({
        [net_profit                 |-> Round(net_profit, 2),
         taxable_income             |-> Round(taxable, 2),
         income_tax                 |-> Round(base_tax, 2),
         self_employment_tax        |-> Zero,
         total_tax                  |-> RoundTie(total_tax, 2, sides.field),
         effective_rate             |-> RoundTie(IF RLt(Zero, gross)
                                                 THEN RMul(RDiv(total_tax, gross), RI(100))
                                                 ELSE Zero, 2, sides.field),
         take_home                  |-> RoundTie(RSub(net_profit, total_tax), 2, sides.field),
         quarterly_estimate         |-> RoundTie(RDiv(total_tax, RI(4)), 2, sides.field),
         india_advance_tax_schedule |-> AdvanceTax(total_tax, sides),
         presumptive_scheme_used    |-> presumptive]
        : total_tax \in {RAdd(RAdd(base_tax, surcharge),
                              RMul(RAdd(base_tax, surcharge), tables.INDIA_NEW_REGIME.cess_rate))} })
        : surcharge \in {_india_surcharge(base_tax, net_profit)} })
        : base_tax \in {IF RLe(taxable, tables.INDIA_NEW_REGIME.rebate_87a_limit) THEN Zero
                        ELSE _india_apply_brackets(taxable, tables.INDIA_NEW_REGIME.brackets,
                                                   sides).tax} })
        : taxable \in {RMax(RSub(net_profit, tables.INDIA_NEW_REGIME.standard_deduction), Zero)} })
        : net_profit \in {IF presumptive THEN RMul(gross, D(50, 2))
                          ELSE RSub(gross, expenses)} })

\* api_freelance on the request body `data`.
api_freelance(data, sides) ==
    IF "gross_revenue" \notin DOMAIN data THEN Unprocessable("'gross_revenue'")
    ELSE IF ~IsNumber(data.gross_revenue) THEN Unprocessable(FloatError(data.gross_revenue))
    ELSE IF ~IsNumber(Get(data, "business_expenses", Zero))
    THEN Unprocessable(FloatError(data.business_expenses))
    ELSE Val({
        CASE country = "US" ->
               Ok(_us_freelance(data.gross_revenue, Get(data, "business_expenses", Zero),
                                Lower(Get(data, "filing_status", "single")),
                                Get(data, "state", "other"), sides))
          [] country = "UK" ->
               Ok(_uk_freelance(data.gross_revenue, Get(data, "business_expenses", Zero),
                                sides))
          [] country = "IN" ->
               Ok(_india_freelance(data.gross_revenue, Get(data, "business_expenses", Zero),
                                   Get(data, "presumptive_scheme", FALSE), sides))
          [] OTHER -> Unprocessable("Country must be US, UK, or IN")
        : country \in {Upper(Get(data, "country", "US"))} })

FreelanceRequests ==
    [country : {"US"}, gross_revenue : {Zero, RI(50000), RI(100000), RI(300000)},
     business_expenses : {Zero, RI(10000)}, filing_status : {"single", "mfj", "hoh"},
     state : {"CA", "TX", "ZZ"}]
        \cup [country : {"UK", "uk"},
              gross_revenue : {Zero, RI(12570), RI(50000), RI(60000), RI(120000),
                               RI(135140), RI(200000)},
              business_expenses : {Zero, RI(10000)}]
        \cup [country : {"IN"},
              gross_revenue : {Zero, RI(1000000), RI(1500000), RI(3000000), RI(6000000)},
              business_expenses : {Zero, RI(200000)}, presumptive_scheme : BOOLEAN]
        \cup [country : {"FR"}, gross_revenue : {RI(50000)}]
        \cup [gross_revenue : {RI(50000)}]
        \cup [country : {"US"}]
        \cup [country : {"US", "IN"}, gross_revenue : {NotANumber, None}]
        \cup [country : {"UK"}, gross_revenue : {RI(50000)}, business_expenses : {NotANumber}]

FreelanceCall ==
    /\ pc = "idle"
    /\ \E data \in FreelanceRequests : \E sides \in SideChoices :
         tax' = [fn |-> "api_freelance", data |-> data, sides |-> sides,
                 response |-> api_freelance(data, sides)]
    /\ pc' = "done"
    /\ UNCHANGED <<mort, debt, inv, budget, tables, served>>

GainsNext == TakeHomeCall \/ FreelanceCall \/ CapitalGainsCall

SpecGains == Init /\ [][GainsNext]_vars

\* ------------------------------------------------------------------------
\* Mortgage repayment: mortgage.py
\* ------------------------------------------------------------------------

\* A chunk that stops one row short.
YearChunkShort(amort, yr) ==
    IF (yr - 1) * 12 >= Len(amort) THEN <<>>
    ELSE SubSeq(amort, (yr - 1) * 12 + 1,
                IF yr * 12 - 1 < Len(amort) THEN yr * 12 - 1 ELSE Len(amort))

\* schedule[(yr - 1) * 12: yr * 12] of _summarize_by_year.
SummaryChunk(schedule, yr) == YearChunk(schedule, yr)

\* math.ceil(len(schedule) / 12)
CeilYears(n) == (n + 11) \div 12

\* for yr in range(1, math.ceil(len(schedule) / 12) + 1)
RECURSIVE SummarizeLoop(_, _, _)
SummarizeLoop(schedule, yr, yearly) ==
    IF yr > CeilYears(Len(schedule)) THEN yearly
    ELSE Val({ SummarizeLoop(schedule, yr + 1,
                             Append(yearly,
                                    [year           |-> yr,
                                     principal_paid |-> Round(SumField(chunk, "principal"), 2),
                                     interest_paid  |-> Round(SumField(chunk, "interest"), 2),
                                     balance        |-> Round(chunk[Len(chunk)].balance, 2)]))
               : chunk \in {SummaryChunk(schedule, yr)} })

_summarize_by_year(schedule) == SummarizeLoop(schedule, 1, <<>>)

\* The two messages of _validate_number; the bounds of the second are kept
\* as numbers.
RequiredError(label) == [label |-> label, text |-> "is required and must be a number"]

RangeError(label, min_val, max_val) ==
    [label |-> label, text |-> "must be between", min_val |-> min_val, max_val |-> max_val]

\* min_val <= v <= max_val for whole min_val and max_val, by the floor and
\* the ceiling of v.
InRange(min_val, v, max_val) ==
    /\ min_val <= v[1] \div v[2]
    /\ 0 - ((0 - v[1]) \div v[2]) <= max_val

\* _validate_number: the pair (v, error), one of the two None.
_validate_number(data, key, min_val, max_val, label) ==
    IF key \notin DOMAIN data \/ ~IsNumber(Get(data, key, None))
    THEN [v |-> None, e |-> Some(RequiredError(label))]
    ELSE IF ~InRange(min_val, data[key], max_val)
    THEN [v |-> None, e |-> Some(RangeError(label, min_val, max_val))]
    ELSE [v |-> data[key], e |-> None]

\* The errors of the three checks, in order; the response joins them with
\* "; ".
RepaymentErrors(data) ==
    Val({ e1 \o e2 \o e3
          : e1 \in {_validate_number(data, "principal", 1000, 100000000, "Loan amount").e},
            e2 \in {_validate_number(data, "annual_rate", 0, 30,
                                     "Annual interest rate").e},
            e3 \in {_validate_number(data, "term_years", 1, 40, "Loan term").e} })

\* int(x) of a float x >= 0
IntOf(x) == x[1] \div x[2]

\* api_repayment on the request body `data`.
api_repayment(data) ==
    IF RepaymentErrors(data) # <<>> THEN Unprocessable(RepaymentErrors(data))
    ELSE Val({ Val({ Val({
        Ok([monthly_payment    |-> Round(payment, 2),
            total_paid         |-> Round(RMul(payment, RI(term_months)), 2),
            total_interest     |-> Round(RSub(RMul(payment, RI(term_months)),
                                              data.principal), 2),
            effective_rate     |-> data.annual_rate,
            amortization_table |-> schedule,
            summary_by_year    |-> _summarize_by_year(schedule)])
        : schedule \in {_amortize(data.principal, data.annual_rate, term_months, payment)} })
        : payment \in {_monthly_payment(data.principal, data.annual_rate, term_months).value} })
        : term_months \in {IntOf(RMul(data.term_years, RI(12)))} })

RepaymentRequests ==
    [principal : {RI(999), RI(1000), D(100001, 2), NotANumber},
     annual_rate : {Zero, RI(31), None},
     term_years : {D(5, 1), RI(1), D(15, 1), RI(2), RI(41)}]
        \cup [principal : {RI(1000)}, annual_rate : {Zero}]
        \cup [principal : {RI(1000)}, term_years : {RI(2)}]
        \cup [annual_rate : {Zero}, term_years : {RI(2)}]
        \cup [annual_rate : {Zero}]

RepaymentCall ==
    /\ pc = "idle"
    /\ \E data \in RepaymentRequests :
         mort' = [fn |-> "api_repayment", data |-> data, response |-> api_repayment(data)]
    /\ pc' = "done"
    /\ UNCHANGED <<tax, debt, inv, budget, tables, served>>

MaxRows == 25

\* Schedules of cents: row m pays principal first + m * step cents and
\* interest top - m cents, and leaves (len - m) * left cents.
ScheduleOf(len, first, step, top, left) ==
    [m \in 1 .. len |->
        [month     |-> m,
         payment   |-> D(first + m * step + top - m, 2),
         principal |-> D(first + m * step, 2),
         interest  |-> D(top - m, 2),
         balance   |-> D((len - m) * left, 2)]]

Schedules ==
    {ScheduleOf(len, first, step, top, left) :
        len \in {0, 1, 11, 12, 13, 24, MaxRows}, first \in {0, 1234},
        step \in {0, 7}, top \in {100, 999}, left \in {1, 4321}}

\* _summarize_by_year on a schedule of its own.
SummarizeCall ==
    /\ pc = "idle"
    /\ \E schedule \in Schedules :
         mort' = [fn |-> "_summarize_by_year", schedule |-> schedule,
                  result |-> _summarize_by_year(schedule)]
    /\ pc' = "done"
    /\ UNCHANGED <<tax, debt, inv, budget, tables, served>>

\* ------------------------------------------------------------------------
\* Budget planner: budget.py
\* ------------------------------------------------------------------------

NeedKeys ==
    {"housing_rent", "housing_hoa", "housing_insurance", "housing_maintenance",
     "util_electricity", "util_gas", "util_water", "util_internet", "util_phone",
     "trans_car_payment", "trans_fuel", "trans_car_insurance", "trans_maintenance",
     "trans_public", "trans_parking", "food_groceries", "health_insurance",
     "health_prescriptions", "health_dental", "health_therapy", "ins_life",
     "ins_disability", "fam_childcare", "fam_school"}

WantKeys ==
    {"trans_rideshare", "food_dining", "food_work_lunch", "health_gym", "pers_clothing",
     "pers_grooming", "ent_streaming", "ent_hobbies", "ent_events", "ent_gaming",
     "ent_books", "ent_travel", "fam_allowance", "fam_pets", "give_charity", "give_gifts",
     "edu_courses", "other_misc"}

DebtKeys == {"debt_student", "debt_credit_card", "debt_personal", "debt_other"}

SavingKeys ==
    {"sav_emergency", "sav_retirement", "sav_investments", "sav_house", "sav_education",
     "sav_other"}

\* The keys of EXPENSE_META, by bucket.
EXPENSE_META == [need |-> NeedKeys, want |-> WantKeys, saving |-> SavingKeys, debt |-> DebtKeys]

INCOME_KEYS ==
    {"inc_primary", "inc_secondary", "inc_freelance", "inc_rental", "inc_dividends",
     "inc_government", "inc_other"}

\* _safe_float(data, key, default=0.0): max(0.0, float(data.get(key, default) or 0)),
\* and the default when float() raises.
_safe_float(data, key) ==
    Val({ IF v = None THEN Zero
          ELSE IF ~IsNumber(v) THEN Zero
          ELSE RMax(Zero, v)
          : v \in {Get(data, key, Zero)} })

\* sum(_safe_float(data, k) for k in keys): the keys a request lacks add 0.
RECURSIVE SafeSum(_, _)
SafeSum(data, keys) ==
    IF keys \cap DOMAIN data = {} THEN Zero
    ELSE Val({ RAdd(_safe_float(data, k), SafeSum(data, keys \ {k}))
               : k \in {CHOOSE k \in keys \cap DOMAIN data : TRUE} })

\* api_budget on the request body `data`.  Of the response, the totals are
\* kept; the two per-key breakdowns and the report of _analyse (methods,
\* health), derived from the same totals, are left out.
api_budget(data) ==
    Val({ Val({
        IF RLe(total_income, Zero)
        THEN Unprocessable("Total income must be greater than zero")
        ELSE Ok([income   |-> [total |-> Round(total_income, 2)],
                 expenses |-> [total   |-> Round(total_expenses, 2),
                               needs   |-> Round(SafeSum(data, EXPENSE_META.need), 2),
                               wants   |-> Round(SafeSum(data, EXPENSE_META.want), 2),
                               savings |-> Round(SafeSum(data, EXPENSE_META.saving), 2),
                               debt    |-> Round(SafeSum(data, EXPENSE_META.debt), 2)],
                 monthly_surplus |-> Round(RSub(total_income, total_expenses), 2),
                 annual_surplus  |-> Round(RMul(RSub(total_income, total_expenses),
                                                RI(12)), 2)])
        : total_expenses \in {SafeSum(data, NeedKeys \cup WantKeys \cup SavingKeys
                                                \cup DebtKeys)} })
        : total_income \in {SafeSum(data, INCOME_KEYS)} })

BudgetRequests ==
    [inc_primary : {RI(5000), RI(0 - 100), NotANumber, None}, inc_other : {Zero, RI(1000)},
     housing_rent : {RI(1500), NotANumber}, food_dining : {D(30050, 2)},
     debt_student : {RI(200), RI(0 - 200)}, sav_emergency : {RI(500)}]
        \cup [inc_primary : {RI(5000), NotANumber}]
        \cup [housing_rent : {RI(1500)}]

BudgetCall ==
    /\ pc = "idle"
    /\ \E data \in BudgetRequests :
         budget' = [fn |-> "api_budget", data |-> data, response |-> api_budget(data)]
    /\ pc' = "done"
    /\ UNCHANGED <<mort, tax, debt, inv, tables, served>>

FormsNext == RepaymentCall \/ SummarizeCall \/ BudgetCall \/ FreelanceCall

SpecForms == Init /\ [][FormsNext]_vars

\* ------------------------------------------------------------------------
\* Mortgage refinance: mortgage.py
\* ------------------------------------------------------------------------

\* Python's truth value of breakeven_months: None and 0 are false.
Truthy(opt) == opt # None /\ opt[1] # 0

\* The statements of api_refinance after the payments; cur and new are the
\* two payments.
RefinanceResult(current_balance, closing_costs, current_months, new_months, cur, new) ==
    Val({ Val({
        [current_monthly        |-> Round(cur, 2),
         new_monthly            |-> Round(new, 2),
         monthly_savings        |-> Round(monthly_savings, 2),
         breakeven_months       |-> breakeven_months,
         total_interest_current |-> Round(RSub(RMul(cur, RI(current_months)),
                                               current_balance), 2),
         total_interest_new     |-> Round(RSub(RMul(new, RI(new_months)), current_balance), 2),
         net_savings            |->
             Round(RSub(RSub(RSub(RMul(cur, RI(current_months)), current_balance),
                             RSub(RMul(new, RI(new_months)), current_balance)),
                        closing_costs), 2),
         recommendation         |->
             IF /\ RLt(Zero, monthly_savings)
                /\ Truthy(breakeven_months)
                /\ breakeven_months[1] < current_months
             THEN "REFINANCE" ELSE "STAY"]
        : breakeven_months \in {IF RLt(Zero, monthly_savings)
                                THEN Some(IntOf(RDiv(closing_costs, monthly_savings)))
                                ELSE None} })
        : monthly_savings \in {RSub(cur, new)} })

\* api_refinance on the request body `data`: a response, or the exception
\* that leaves the handler.
api_refinance(data) ==
    IF "current_balance" \notin DOMAIN data
    THEN Returned(Unprocessable("'current_balance'"))
    ELSE IF "current_rate" \notin DOMAIN data
    THEN Returned(Unprocessable("'current_rate'"))
    ELSE IF "new_rate" \notin DOMAIN data
    THEN Returned(Unprocessable("'new_rate'"))
    ELSE Val({ Val({
        IF cur.kind = "raise" THEN cur
        ELSE IF new.kind = "raise" THEN new
        ELSE Returned(Ok(RefinanceResult(data.current_balance,
                                         Get(data, "closing_costs", RI(4000)),
                                         current_months, new_months, cur.value, new.value)))
        : cur \in {_monthly_payment(data.current_balance, data.current_rate, current_months)},
          new \in {_monthly_payment(data.current_balance, data.new_rate, new_months)} })
        : current_months \in {IntOf(RMul(Get(data, "current_remaining_years", RI(25)),
                                         RI(12)))},
          new_months     \in {IntOf(RMul(Get(data, "new_term_years", RI(30)), RI(12)))} })

\* Interest-free loans of one to three years, loans at interest of one to
\* two months, and requests that leave fields out.
RefinanceRequests ==
    [current_balance : {RI(6000), RI(12000), RI(120000)}, current_rate : {Zero},
     new_rate : {Zero}, current_remaining_years : {RI(1), RI(2)},
     new_term_years : {RI(1), RI(2), RI(3)},
     closing_costs : {Zero, RI(100), RI(499), RI(500), RI(6000), RI(100000)}]
        \cup [current_balance : {RI(12000)}, current_rate : {RI(12)},
              new_rate : {Zero, RI(6), RI(12), RI(18)},
              current_remaining_years : {D(1, 1), D(2, 1)},
              new_term_years : {Zero, D(1, 1), D(2, 1)}, closing_costs : {Zero, RI(10)}]
        \cup [current_balance : {RI(12000)}, current_rate : {Zero}, new_rate : {Zero},
              current_remaining_years : {RI(1)}, new_term_years : {RI(2)}]
        \cup [current_balance : {RI(12000)}, current_rate : {Zero}]
        \cup [current_balance : {RI(12000)}, new_rate : {Zero}]
        \cup [current_rate : {Zero}, new_rate : {Zero}]

RefinanceCall ==
    /\ pc = "idle"
    /\ \E data \in RefinanceRequests : \E r \in {api_refinance(data)} :
         IF r.kind = "raise"
         THEN /\ mort' = [fn |-> "api_refinance", data |-> data, result |-> r]
              /\ pc' = "raised"
         ELSE /\ mort' = [fn |-> "api_refinance", data |-> data, response |-> r.value]
              /\ pc' = "done"
    /\ UNCHANGED <<tax, debt, inv, budget, tables, served>>

\* ------------------------------------------------------------------------
\* Student loan refinance: debt.py
\* ------------------------------------------------------------------------

preset_rates == [undergrad |-> D(653, 2), grad |-> D(808, 2), parent_plus |-> D(908, 2)]

\* The text of the warning, without the sign it opens with.
FederalWarning ==
    "Refinancing federal loans with a private lender forfeits income-driven repayment options, Public Service Loan Forgiveness (PSLF), and federal forbearance protections."

\* The rate the current payment is computed with.
StudentCurrentRate(data, loan_type) ==
    IF loan_type \in DOMAIN preset_rates /\ "current_rate" \notin DOMAIN data
    THEN preset_rates[loan_type]
    ELSE data.current_rate

\* The statements of api_student_loan after the payments.
StudentLoanResult(balance, loan_type, income, current_months, new_months, cur, new) ==
    [current_monthly          |-> Round(cur, 2),
     new_monthly              |-> Round(new, 2),
     monthly_savings          |-> Round(RSub(cur, new), 2),
     total_interest_current   |-> Round(RSub(RMul(cur, RI(current_months)), balance), 2),
     total_interest_new       |-> Round(RSub(RMul(new, RI(new_months)), balance), 2),
     lifetime_savings         |-> Round(RSub(RSub(RMul(cur, RI(current_months)), balance),
                                             RSub(RMul(new, RI(new_months)), balance)), 2),
     breakeven_months         |-> None,
     idr_monthly              |-> Round(RDiv(RMul(RMax(RSub(income, RI(22000)), Zero),
                                                  D(10, 2)), RI(12)), 2),
     federal_benefits_warning |-> IF loan_type \in {"undergrad", "grad", "parent_plus"}
                                  THEN FederalWarning ELSE ""]

\* api_student_loan on the request body `data`: a response, or the
\* exception that leaves the handler.
api_student_loan(data) ==
    IF "loan_balance" \notin DOMAIN data THEN Returned(Unprocessable("'loan_balance'"))
    ELSE IF "current_rate" \notin DOMAIN data THEN Returned(Unprocessable("'current_rate'"))
    ELSE IF "new_rate" \notin DOMAIN data THEN Returned(Unprocessable("'new_rate'"))
    ELSE Val({ Val({
        IF cur.kind = "raise" THEN cur
        ELSE IF new.kind = "raise" THEN new
        ELSE Returned(Ok(StudentLoanResult(data.loan_balance, Get(data, "loan_type", "custom"),
                                           Get(data, "income", RI(60000)),
                                           current_months, new_months, cur.value, new.value)))
        : cur \in {debt_monthly_payment(data.loan_balance,
                                        StudentCurrentRate(data, Get(data, "loan_type",
                                                                     "custom")),
                                        current_months)},
          new \in {debt_monthly_payment(data.loan_balance, data.new_rate, new_months)} })
        : current_months \in {IntOf(RMul(Get(data, "current_term_years", RI(10)), RI(12)))},
          new_months     \in {IntOf(RMul(Get(data, "new_term_years", RI(10)), RI(12)))} })

LoanTypes == {"custom", "undergrad", "grad", "parent_plus"}

\* Loans of one or two months at interest, interest-free loans of the
\* default ten years, and requests that leave fields out.
StudentLoanRequests ==
    [loan_balance : {RI(120000)}, loan_type : LoanTypes,
     current_rate : {Zero, RI(6), RI(12)}, current_term_years : {D(1, 1), D(2, 1)},
     new_rate : {Zero, RI(6)}, new_term_years : {D(1, 1)}, income : {RI(20000), RI(60000)}]
        \cup [loan_balance : {RI(120000)}, loan_type : LoanTypes,
              current_term_years : {D(1, 1)}, new_rate : {Zero, RI(6)},
              new_term_years : {D(1, 1)}]
        \cup [loan_balance : {RI(120000)}, current_rate : {Zero}, new_rate : {Zero}]
        \cup [loan_balance : {RI(120000)}, loan_type : LoanTypes, current_rate : {RI(12)},
              current_term_years : {Zero}, new_rate : {Zero}]
        \cup [loan_balance : {RI(120000)}, loan_type : LoanTypes, new_rate : {Zero}]
        \cup [loan_type : LoanTypes, current_rate : {Zero}, new_rate : {Zero}]
        \cup [loan_balance : {RI(120000)}, current_rate : {Zero}]

StudentLoanCall ==
    /\ pc = "idle"
    /\ \E data \in StudentLoanRequests : \E r \in {api_student_loan(data)} :
         IF r.kind = "raise"
         THEN /\ debt' = [fn |-> "api_student_loan", data |-> data, result |-> r]
              /\ pc' = "raised"
         ELSE /\ debt' = [fn |-> "api_student_loan", data |-> data, response |-> r.value]
              /\ pc' = "done"
    /\ UNCHANGED <<mort, tax, inv, budget, tables, served>>

LoansNext == RefinanceCall \/ StudentLoanCall

SpecLoans == Init /\ [][LoansNext]_vars

\* ------------------------------------------------------------------------
\* Growth projections: investment.py, specialized.py
\* ------------------------------------------------------------------------

COMPOUND_FREQ == [annually |-> 1, semi |-> 2, quarterly |-> 4, monthly |-> 12, daily |-> 365]

\* COMPOUND_FREQ.get(freq_key, 12)
CompoundN(freq_key) ==
    IF freq_key \in DOMAIN COMPOUND_FREQ THEN COMPOUND_FREQ[freq_key] ELSE 12

EMP_LIMIT == RI(23500)

\* A period that takes the addition out of the balance.
CompoundPeriodWithdraw(balance, r_per_period, addition) ==
    RSub(FlMul(balance, RAdd(One, r_per_period)), addition)

\* balance = balance * (1 + r_per_period) + monthly_add * (12 / periods_per_year)
CompoundPeriod(balance, r_per_period, addition) ==
    RAdd(FlMul(balance, RAdd(One, r_per_period)), addition)

\* balance = balance * (1 + monthly_return) + monthly_total, for the nominal
\* and, with its own factor, for the real balance of the 401(k).
PensionMonth(balance, rate, monthly_total) ==
    RAdd(FlMul(balance, RAdd(One, rate)), monthly_total)

\* A month that grows the balance before the instalment is added.
SipMonthGrowthFirst(balance, sip_amount, r_monthly) ==
    RAdd(FlMul(balance, RAdd(One, r_monthly)), sip_amount)

\* balance = (balance + sip_amount) * (1 + r_monthly)
SipMonth(balance, sip_amount, r_monthly) ==
    FlMul(RAdd(balance, sip_amount), RAdd(One, r_monthly))

\* balance = (balance + monthly_expense) * (1 + monthly_return), for the
\* nominal and, with its own factor, for the real balance of the latte factor.
LatteMonth(balance, monthly_expense, rate) ==
    FlMul(RAdd(balance, monthly_expense), RAdd(One, rate))

\* for _ in range(periods_per_year): k passes, the first half of them and
\* then the rest, which keeps the evaluation of 365 passes shallow.
RECURSIVE CompoundPeriods(_, _, _, _)
CompoundPeriods(k, balance, r_per_period, addition) ==
    IF k = 0 THEN balance
    ELSE IF k = 1 THEN CompoundPeriod(balance, r_per_period, addition)
    ELSE Val({ CompoundPeriods(k - (k \div 2), b, r_per_period, addition)
               : b \in {CompoundPeriods(k \div 2, balance, r_per_period, addition)} })

\* for _ in range(12), of the 401(k)
RECURSIVE PensionMonths(_, _, _, _)
PensionMonths(k, balance, rate, monthly_total) ==
    IF k = 0 THEN balance
    ELSE Val({ PensionMonths(k - 1, b, rate, monthly_total)
               : b \in {PensionMonth(balance, rate, monthly_total)} })

\* for _ in range(12), of the SIP
RECURSIVE SipMonths(_, _, _, _)
SipMonths(k, balance, sip_amount, r_monthly) ==
    IF k = 0 THEN balance
    ELSE Val({ SipMonths(k - 1, b, sip_amount, r_monthly)
               : b \in {SipMonth(balance, sip_amount, r_monthly)} })

\* for _ in range(12), of the latte factor
RECURSIVE LatteMonths(_, _, _, _)
LatteMonths(k, balance, monthly_expense, rate) ==
    IF k = 0 THEN balance
    ELSE Val({ LatteMonths(k - 1, b, monthly_expense, rate)
               : b \in {LatteMonth(balance, monthly_expense, rate)} })

\* One pass of `for yr in range(1, years + 1)` of the calculator of frame f.
GrowthYearStep(f) ==
    CASE f.fn = "api_compound_interest" ->
           Val({ [f EXCEPT !.balance = balance,
                           !.total_contributed = total_contributed,
                           !.yearly = Append(@, [year        |-> f.yr,
                                                 balance     |-> Round(balance, 2),
                                                 contributed |-> Round(total_contributed, 2),
                                                 interest    |->
                                                     Round(RSub(balance, total_contributed),
                                                           2)]),
                           !.yr = f.yr + 1]
                 : balance \in {CompoundPeriods(f.n, f.balance, f.r_per_period,
                                                Fl(RMul(f.monthly_add,
                                                        RDiv(RI(12), RI(f.n)))))},
                   total_contributed \in {RAdd(f.total_contributed,
                                               RMul(f.monthly_add, RI(12)))} })
      [] f.fn = "api_pension_401k" ->
           Val({ [f EXCEPT !.balance = balance,
                           !.real_balance = real_balance,
                           !.yearly = Append(@, [year         |-> f.yr,
                                                 age          |-> f.current_age + f.yr,
                                                 balance      |-> Round(balance, 2),
                                                 real_balance |-> Round(real_balance, 2)]),
                           !.yr = f.yr + 1]
                 : balance \in {PensionMonths(12, f.balance, f.monthly_return,
                                              f.monthly_total)},
                   real_balance \in {PensionMonths(12, f.real_balance,
                                                   RSub(f.monthly_return,
                                                        f.inflation_monthly),
                                                   f.monthly_total)} })
      [] f.fn = "api_sip" ->
           Val({ [f EXCEPT !.balance = balance,
                           !.total_invested = total_invested,
                           !.sip_amount = FlMul(f.sip_amount,
                                                RAdd(One, RDiv(f.step_up_pct, RI(100)))),
                           !.yearly = Append(@, [year     |-> f.yr,
                                                 invested |-> Round(total_invested, 2),
                                                 value    |-> Round(balance, 2),
                                                 returns  |->
                                                     Round(RSub(balance, total_invested),
                                                           2)]),
                           !.yr = f.yr + 1]
                 : balance \in {SipMonths(12, f.balance, f.sip_amount, f.r_monthly)},
                   total_invested \in {RAdd(f.total_invested,
                                            RMul(f.sip_amount, RI(12)))} })
      [] f.fn = "api_latte_factor" ->
           Val({ [f EXCEPT !.balance = balance,
                           !.real_balance = real_balance,
                           !.total_saved = total_saved,
                           !.yearly = Append(@, [year       |-> f.yr,
                                                 saved      |-> Round(total_saved, 2),
                                                 invested   |-> Round(balance, 2),
                                                 real_value |-> Round(real_balance, 2)]),
                           !.yr = f.yr + 1]
                 : balance \in {LatteMonths(12, f.balance, f.monthly_expense,
                                            f.monthly_return)},
                   real_balance \in {LatteMonths(12, f.real_balance, f.monthly_expense,
                                                 RSub(f.monthly_return,
                                                      f.inflation_monthly))},
                   total_saved \in {RAdd(f.total_saved,
                                         RMul(f.monthly_expense, RI(12)))} })

\* The response of each calculator.  Of api_compound_interest the
\* effective_apy, (1 + annual_rate / 100 / n) ** n - 1, is left out: the
\* n-th power lies outside the number range.
GrowthResponse(f) ==
    CASE f.fn = "api_compound_interest" ->
           Ok([final_balance     |-> Round(f.balance, 2),
               total_contributed |-> Round(f.total_contributed, 2),
               total_interest    |-> Round(RSub(f.balance, f.total_contributed), 2),
               yearly_breakdown  |-> f.yearly])
      [] f.fn = "api_pension_401k" ->
           Ok([years_to_retirement          |-> f.years,
               annual_employee_contribution |-> Round(f.annual_employee, 2),
               annual_employer_contribution |-> Round(f.annual_employer, 2),
               total_annual_contribution    |->
                   Round(RAdd(f.annual_employee, f.annual_employer), 2),
               irs_limit_warning            |-> f.irs_warning,
               projected_balance            |-> Round(f.balance, 2),
               projected_balance_real       |-> Round(f.real_balance, 2),
               monthly_income_4pct          |->
                   Round(RDiv(RMul(f.balance, D(4, 2)), RI(12)), 2),
               monthly_income_real          |->
                   Round(RDiv(RMul(f.real_balance, D(4, 2)), RI(12)), 2),
               yearly_growth                |-> f.yearly])
      [] f.fn = "api_sip" ->
           Ok([total_invested      |-> Round(f.total_invested, 2),
               estimated_returns   |-> Round(RSub(f.balance, f.total_invested), 2),
               final_amount        |-> Round(f.balance, 2),
               absolute_return_pct |->
                   IF RLt(Zero, f.total_invested)
                   THEN Round(RMul(RSub(RDiv(f.balance, f.total_invested), One), RI(100)), 2)
                   ELSE Zero,
               wealth_ratio        |->
                   IF RLt(Zero, f.total_invested)
                   THEN Round(RDiv(f.balance, f.total_invested), 2)
                   ELSE Zero,
               yearly_breakdown    |-> f.yearly])
      [] f.fn = "api_latte_factor" ->
           Ok([daily_expense          |-> Round(f.daily_expense, 2),
               monthly_expense        |-> Round(f.monthly_expense, 2),
               annual_expense         |-> Round(RMul(f.daily_expense, RI(365)), 2),
               invested_value_nominal |-> Round(f.balance, 2),
               invested_value_real    |-> Round(f.real_balance, 2),
               total_invested         |-> Round(f.total_saved, 2),
               investment_gain        |-> Round(RSub(f.balance, f.total_saved), 2),
               yearly_projection      |-> f.yearly])

GrowthYearsSet == {0, 1, 3}
GrowthReturns == {RI(0 - 12), Zero, RI(7)}

CompoundRequests ==
    [principal : {Zero, RI(1000)}, monthly_addition : {Zero, RI(100), RI(0 - 100)},
     annual_rate : GrowthReturns, years : GrowthYearsSet,
     compound_freq : {"annually", "quarterly", "monthly", "weekly"}]
        \cup [principal : {RI(1000)}, monthly_addition : {RI(100)}, annual_rate : {RI(7)},
              years : {1}, compound_freq : {"semi", "daily"}]
        \cup [annual_rate : {RI(7)}, years : {1}]
        \cup [annual_rate : {RI(7)}]
        \cup [years : {1}]

\* api_compound_interest up to its loop.
CompoundCall ==
    /\ pc = "idle"
    /\ \E data \in CompoundRequests :
         IF "annual_rate" \notin DOMAIN data
         THEN /\ inv' = [fn |-> "api_compound_interest", data |-> data,
                         response |-> Unprocessable("'annual_rate'")]
              /\ pc' = "done"
         ELSE IF "years" \notin DOMAIN data
         THEN /\ inv' = [fn |-> "api_compound_interest", data |-> data,
                         response |-> Unprocessable("'years'")]
              /\ pc' = "done"
         ELSE /\ inv' = [fn                |-> "api_compound_interest",
                         data              |-> data,
                         years             |-> data.years,
                         monthly_add       |-> Get(data, "monthly_addition", Zero),
                         n                 |-> CompoundN(Get(data, "compound_freq",
                                                             "monthly")),
                         r_per_period      |->
                             RDiv(RDiv(data.annual_rate, RI(100)),
                                  RI(CompoundN(Get(data, "compound_freq", "monthly")))),
                         balance           |-> Get(data, "principal", Zero),
                         total_contributed |-> Get(data, "principal", Zero),
                         yearly            |-> <<>>,
                         yr                |-> 1]
              /\ pc' = "growth_loop"
    /\ UNCHANGED <<mort, tax, debt, budget, tables, served>>

PensionRequests ==
    [current_age : {62, 64, 65}, current_balance : {Zero, RI(10000)},
     annual_salary : {RI(60000), RI(300000)}, contribution_pct : {Zero, RI(10)},
     expected_return : GrowthReturns, inflation_rate : {Zero, D(25, 1)}]
        \cup [current_age : {64}, retirement_age : {60, 65}, annual_salary : {RI(60000)},
              employer_match_pct : {Zero, RI(50)}, employer_match_limit : {RI(4)},
              expected_return : {Zero}, inflation_rate : {Zero}]
        \cup [current_age : {64}]
        \cup [annual_salary : {RI(60000)}]

\* api_pension_401k up to its loop.
PensionCall ==
    /\ pc = "idle"
    /\ \E data \in PensionRequests :
         IF "current_age" \notin DOMAIN data
         THEN /\ inv' = [fn |-> "api_pension_401k", data |-> data,
                         response |-> Unprocessable("'current_age'")]
              /\ pc' = "done"
         ELSE IF "annual_salary" \notin DOMAIN data
         THEN /\ inv' = [fn |-> "api_pension_401k", data |-> data,
                         response |-> Unprocessable("'annual_salary'")]
              /\ pc' = "done"
         ELSE IF Get(data, "retirement_age", 65) <= data.current_age
         THEN /\ inv' = [fn |-> "api_pension_401k", data |-> data,
                         response |->
                             Unprocessable("Retirement age must be greater than current age")]
              /\ pc' = "done"
         ELSE \E own \in {RDiv(RMul(data.annual_salary,
                                    Get(data, "contribution_pct", RI(10))), RI(100))} :
              \E annual_employee \in {RMin(own, EMP_LIMIT)} :
              \E annual_employer \in
                    {IF RLt(Zero, Get(data, "contribution_pct", RI(10)))
                     THEN RDiv(RMul(RMin(own,
                                         RDiv(RMul(data.annual_salary,
                                                   Get(data, "employer_match_limit", RI(6))),
                                              RI(100))),
                                    Get(data, "employer_match_pct", RI(3))),
                               Get(data, "contribution_pct", RI(10)))
                     ELSE Zero} :
              /\ inv' = [fn                |-> "api_pension_401k",
                         data              |-> data,
                         current_age       |-> data.current_age,
                         years             |-> Get(data, "retirement_age", 65)
                                                   - data.current_age,
                         annual_employee   |-> annual_employee,
                         annual_employer   |-> annual_employer,
                         irs_warning       |-> RLt(EMP_LIMIT, own),
                         monthly_return    |->
                             RDiv(RDiv(Get(data, "expected_return", RI(7)), RI(100)),
                                  RI(12)),
                         monthly_total     |->
                             Fl(RDiv(RAdd(annual_employee, annual_employer), RI(12))),
                         inflation_monthly |->
                             RDiv(RDiv(Get(data, "inflation_rate", D(25, 1)), RI(100)),
                                  RI(12)),
                         balance           |-> Get(data, "current_balance", Zero),
                         real_balance      |-> Get(data, "current_balance", Zero),
                         yearly            |-> <<>>,
                         yr                |-> 1]
              /\ pc' = "growth_loop"
    /\ UNCHANGED <<mort, tax, debt, budget, tables, served>>

SipRequests ==
    [monthly_investment : {Zero, RI(100), RI(0 - 100)}, annual_return : GrowthReturns,
     years : GrowthYearsSet, step_up_pct : {Zero, RI(10), RI(0 - 50)}]
        \cup [monthly_investment : {RI(100)}, annual_return : {Zero}, years : {3},
              step_up_pct : {RI(0 - 200)}]
        \cup [monthly_investment : {RI(100)}, years : {1}]
        \cup [monthly_investment : {RI(100)}]
        \cup [years : {1}]

\* api_sip up to its loop.
SipCall ==
    /\ pc = "idle"
    /\ \E data \in SipRequests :
         IF "monthly_investment" \notin DOMAIN data
         THEN /\ inv' = [fn |-> "api_sip", data |-> data,
                         response |-> Unprocessable("'monthly_investment'")]
              /\ pc' = "done"
         ELSE IF "years" \notin DOMAIN data
         THEN /\ inv' = [fn |-> "api_sip", data |-> data,
                         response |-> Unprocessable("'years'")]
              /\ pc' = "done"
         ELSE /\ inv' = [fn             |-> "api_sip",
                         data           |-> data,
                         years          |-> data.years,
                         r_monthly      |->
                             RDiv(RDiv(Get(data, "annual_return", RI(12)), RI(100)), RI(12)),
                         step_up_pct    |-> Get(data, "step_up_pct", Zero),
                         sip_amount     |-> data.monthly_investment,
                         total_invested |-> Zero,
                         balance        |-> Zero,
                         yearly         |-> <<>>,
                         yr             |-> 1]
              /\ pc' = "growth_loop"
    /\ UNCHANGED <<mort, tax, debt, budget, tables, served>>

LatteRequests ==
    [daily_expense : {Zero, RI(5), D(475, 2), RI(0 - 5)}, annual_return : GrowthReturns,
     years : GrowthYearsSet, inflation_rate : {Zero, D(25, 1)}]
        \cup [daily_expense : {RI(5)}, years : {1}]
        \cup [years : {1}]

\* api_latte_factor up to its loop: every field has a default.
LatteCall ==
    /\ pc = "idle"
    /\ \E data \in LatteRequests :
         inv' = [fn                |-> "api_latte_factor",
                 data              |-> data,
                 years             |-> Get(data, "years", 30),
                 daily_expense     |-> Get(data, "daily_expense", RI(5)),
                 monthly_expense   |-> Fl(RMul(Get(data, "daily_expense", RI(5)),
                                               D(3044, 2))),
                 monthly_return    |->
                     RDiv(RDiv(Get(data, "annual_return", RI(7)), RI(100)), RI(12)),
                 inflation_monthly |->
                     RDiv(RDiv(Get(data, "inflation_rate", D(25, 1)), RI(100)), RI(12)),
                 balance           |-> Zero,
                 real_balance      |-> Zero,
                 total_saved       |-> Zero,
                 yearly            |-> <<>>,
                 yr                |-> 1]
    /\ pc' = "growth_loop"
    /\ UNCHANGED <<mort, tax, debt, budget, tables, served>>

GrowthYearIter ==
    /\ pc = "growth_loop"
    /\ inv.yr <= inv.years
    /\ inv' = GrowthYearStep(inv)
    /\ UNCHANGED <<pc, mort, tax, debt, budget, tables, served>>

GrowthReturn ==
    /\ pc = "growth_loop"
    /\ inv.yr > inv.years
    /\ inv' = inv @@ [response |-> GrowthResponse(inv)]
    /\ pc' = "done"
    /\ UNCHANGED <<mort, tax, debt, budget, tables, served>>

GrowthNext ==
    \/ CompoundCall \/ PensionCall \/ SipCall \/ LatteCall
    \/ GrowthYearIter \/ GrowthReturn
    \/ FireNext

SpecGrowth == Init /\ [][GrowthNext]_vars

\* ------------------------------------------------------------------------
\* Requests one after another
\* ------------------------------------------------------------------------

MaxServed == 3

\* What a request ended with: its response, or the exception it raised.
Outcome(f) ==
    IF "response" \in DOMAIN f THEN f.response
    ELSE [status |-> 500, ok |-> FALSE, error |-> f.result.exc]

\* The handler returns: its answer is on record and its locals are gone.
Serve ==
    /\ pc \in {"done", "raised"}
    /\ Len(served) < MaxServed
    /\ \E f \in {IF mort.fn # "none" THEN mort ELSE tax} :
         served' = Append(served, [fn      |-> f.fn,
                                   data    |-> f.data,
                                   sides   |-> Get(f, "sides", None),
                                   outcome |-> Outcome(f)])
    /\ mort' = NoFrame
    /\ tax' = NoFrame
    /\ pc' = "idle"
    /\ UNCHANGED <<debt, inv, budget, tables>>

PureCgtRequests ==
    [country : {"US", "IN"}, asset_type : {"equity", "property"},
     purchase_price : {RI(10000)}, sale_price : {RI(5000), RI(200000)},
     holding_months : {RI(11), RI(12)}, annual_income : {RI(48350), RI(195000)},
     filing_status : {"single", "mfj"}]

\* The first request of the process.
FirstRequest ==
    /\ served = <<>>
    /\ \/ RvbCall
       \/ CapitalGainsCallWith(PureCgtRequests, CgtSides)

RvbFailingRequests ==
    [home_price : {RI(20000)}]
        \cup [home_price : {RI(20000)}, monthly_rent : {RI(1500)}, term_years : {0}]
        \cup [home_price : {RI(20000)}, monthly_rent : {RI(1500)}, mortgage_rate : {Zero},
              term_years : {1}, years : {0}]

\* A request that fails, between two others.
FailingRequest ==
    /\ Len(served) = 1
    /\ RvbCallWith(RvbFailingRequests)

\* The first request again; the floats of the same inputs round as before.
RepeatRequest ==
    /\ served # <<>>
    /\ Len(served) < MaxServed
    /\ IF served[1].fn = "api_rent_vs_buy"
       THEN RvbCallWith({served[1].data})
       ELSE CapitalGainsCallWith({served[1].data}, {served[1].sides})

PureNext ==
    FirstRequest \/ FailingRequest \/ RepeatRequest \/ RvbYearIter \/ RvbReturn \/ Serve

SpecPure == Init /\ [][PureNext]_vars

\* ------------------------------------------------------------------------
\* The three loops under fair scheduling
\* ------------------------------------------------------------------------

LoopsNext == AnnuityNext \/ DebtNext \/ FireNext

\* A request being served runs on: every loop pass and every return that is
\* enabled is eventually taken.  Requests themselves need not arrive.
SpecLoopsFair ==
    /\ Init
    /\ [][LoopsNext]_vars
    /\ WF_vars(AmortizeIter) /\ WF_vars(AmortizeReturn)
    /\ WF_vars(PayoffSimIter) /\ WF_vars(PayoffSimReturnMin)
    /\ WF_vars(PayoffSimReturnExtra)
    /\ WF_vars(FireYearIter) /\ WF_vars(FireReturn)

\* ------------------------------------------------------------------------
\* Properties of the annuity engine
\* ------------------------------------------------------------------------

Cent == <<1, 100>>

AmortizeDone == pc = "done" /\ mort.fn = "_amortize"

LastRow == mort.schedule[Len(mort.schedule)]

C3_NonPositiveTermIsInvalidInput ==
    (pc = "done" /\ mort.fn = "_monthly_payment" /\ mort.term_months <= 0) =>
        /\ mort.result.kind = "raise"
        /\ mort.result.exc = "InvalidInput"

RECURSIVE SumTax(_)
SumTax(applied) ==
    IF applied = <<>> THEN Zero ELSE RAdd(applied[1].tax, SumTax(Tail(applied)))

ApplyDone ==
    pc = "done" /\ tax.fn \in {"_apply_brackets", "_india_apply_brackets"}

\* C5: for every bracket table and every taxable income >= 0, the total tax
\* applyBrackets returns equals the sum of the tax amounts of the breakdown
\* returned with it.
C5_TotalIsSumOfBreakdown ==
    ApplyDone => tax.result.tax = SumTax(tax.result.applied)

\* C6: on one bracket table, for taxable incomes 0 <= a <= b the total tax
\* returned for a is at most the total tax returned for b.
C6_TotalTaxMonotone ==
    (ApplyDone /\ tax.before # NoCall) =>
        /\ RLe(tax.before.taxable_income, tax.taxable_income)
              => RLe(tax.before.result.tax, tax.result.tax)
        /\ RLe(tax.taxable_income, tax.before.taxable_income)
              => RLe(tax.result.tax, tax.before.result.tax)

\* Two calls with a < b in different brackets, both taxed.
C6_Witness ==
    /\ ApplyDone /\ tax.before # NoCall
    /\ RLt(tax.before.taxable_income, tax.taxable_income)
    /\ Len(tax.before.result.applied) < Len(tax.result.applied)
    /\ RLt(Zero, tax.before.result.tax)
    /\ RLt(tax.before.result.tax, tax.result.tax)

TakeHomeOk ==
    pc = "done" /\ tax.fn = "api_take_home_pay" /\ tax.response.ok

TakeHomeBrackets(data) ==
    CASE Upper(data.country) = "US" -> US_TAX_BRACKETS[UsFiling(Lower(data.filing_status))]
      [] Upper(data.country) = "UK" -> UK_TAX_BRACKETS
      [] Upper(data.country) = "IN" -> IndiaCfg(data.regime).brackets

TakeHomeTaxable(data) ==
    CASE Upper(data.country) = "US" -> UsTaxable(data.gross_income, Lower(data.filing_status))
      [] Upper(data.country) = "UK" -> UkTaxable(data.gross_income)
      [] Upper(data.country) = "IN" -> IndiaTaxable(data.gross_income, data.regime)

\* The rate of the bracket i with previousUpper <= taxable < upper.
RECURSIVE HalfOpenRate(_, _, _)
HalfOpenRate(taxable, brackets, i) ==
    IF i >= Len(brackets) \/ RLt(taxable, brackets[i][1])
    THEN brackets[i][2]
    ELSE HalfOpenRate(taxable, brackets, i + 1)

\* C7: in every take-home wrapper the reported marginal rate is the rate of
\* the bracket containing the taxable income, bracket i covering the
\* half-open band [previousUpperBound, currentUpperBound).
C7_MarginalRateOfHalfOpenBand ==
    TakeHomeOk =>
        tax.response.data.marginal_rate =
            Round(RMul(HalfOpenRate(TakeHomeTaxable(tax.data),
                                    TakeHomeBrackets(tax.data), 1), RI(100)), 1)

\* ------------------------------------------------------------------------
\* Properties of the credit-card payoff
\* ------------------------------------------------------------------------

CardDone ==
    pc = "done" /\ debt.fn = "api_credit_card" /\ debt.response.ok

\* A run stopped by the cap with the debt unpaid.
Capped(ret) == ret.months = MonthCap /\ RLt(D(1, 2), ret.left)

MinimumOnlyKeys == {"months_to_payoff", "total_interest", "total_paid"}
WithExtraKeys ==
    {"months_to_payoff", "total_interest", "total_paid", "interest_saved", "months_saved"}

\* The response of a run that paid the debt off: ok, and nothing but the
\* payoff figures.
LooksPaidOff(response) ==
    /\ response.ok
    /\ DOMAIN response.data = {"minimum_only", "with_extra", "monthly_schedule"}
    /\ DOMAIN response.data.minimum_only = MinimumOnlyKeys
    /\ DOMAIN response.data.with_extra = WithExtraKeys

\* C8: when the payoff simulation stops at the 600-month cap with the
\* balance still above 0.01, the result reports a non-convergence condition
\* a caller can tell apart from a normal paid-off result.
C8_CapReportedDistinctly ==
    (CardDone /\ (Capped(debt.min) \/ Capped(debt.extra)))
        => ~LooksPaidOff(debt.response)

Scenario3 ==
    /\ debt.fn = "api_credit_card"
    /\ "balance" \in DOMAIN debt.data
    /\ debt.balance = RI(5000)
    /\ debt.monthly_rate = RDiv(RDiv(D(215, 1), RI(100)), RI(12))
    /\ debt.min_pct = RI(2)
    /\ debt.min_floor = RI(25)
    /\ debt.extra_payment = Zero

\* C9: with balance 5000, APR 21.5, minimum 2%, floor 25 and no extra
\* payment, the loop of the payoff simulation ends because the balance has
\* reached <= 0.01.
C9_Scenario3EndsPaidOff ==
    (Scenario3 /\ pc = "payoff_sim" /\ ~PayoffLoopCond(debt.sim))
        => RLe(debt.sim.b, D(1, 2))

\* C10: the run with the extra payment needs no more months and accrues no
\* more interest than the run without it, so months_saved >= 0 and
\* interest_saved >= 0.
C10_ExtraPaymentNeverCostsMore ==
    CardDone =>
        /\ debt.extra.months <= debt.min.months
        /\ RLe(debt.extra.total_interest, debt.min.total_interest)
        /\ debt.response.data.with_extra.months_saved >= 0
        /\ RLe(Zero, debt.response.data.with_extra.interest_saved)

\* A request whose extra payment saved both months and interest.
C10_Witness ==
    /\ CardDone
    /\ RLt(Zero, debt.extra_payment)
    /\ debt.response.data.with_extra.months_saved > 0
    /\ RLt(Zero, debt.response.data.with_extra.interest_saved)

\* A pass of the payoff loop: the month count of the running simulation
\* goes up by one.
PayoffPass ==
    /\ pc = "payoff_sim"
    /\ pc' = "payoff_sim"
    /\ debt'.run = debt.run
    /\ debt'.sim.months = debt.sim.months + 1

PayoffInvariant(sim) ==
    /\ RLe(Zero, sim.b)
    /\ SameAmount(sim.total_paid, RAdd(sim.total_interest, RSub(debt.balance, sim.b)))
    /\ Len(sim.schedule) = (IF sim.months < ScheduleCap THEN sim.months ELSE ScheduleCap)
    /\ \A i \in 1 .. Len(sim.schedule) : sim.schedule[i].month = i

\* C27: in every run of the payoff simulation each month's payment is at
\* most balance + interest, the balance is never negative, total_paid =
\* total_interest + (initial balance - balance) after every month and so at
\* exit, and the schedule holds the first min(months, 360) months numbered
\* from 1; the response returns the schedule of the run with the extra
\* payment.
C27_PayoffAccounting ==
    /\ [][PayoffPass =>
              RLe(RSub(debt'.sim.total_paid, debt.sim.total_paid),
                  RAdd(debt.sim.b,
                       RSub(debt'.sim.total_interest, debt.sim.total_interest)))]_vars
    /\ [](pc = "payoff_sim" => PayoffInvariant(debt.sim))
    /\ [](CardDone =>
              /\ debt.response.data.monthly_schedule = debt.extra.schedule
              /\ Len(debt.extra.schedule) =
                     (IF debt.extra.months < ScheduleCap THEN debt.extra.months
                      ELSE ScheduleCap)
              /\ SameAmount(debt.extra.total_paid,
                            RAdd(debt.extra.total_interest,
                                 RSub(debt.balance, debt.extra.left)))
              /\ SameAmount(debt.min.total_paid,
                            RAdd(debt.min.total_interest,
                                 RSub(debt.balance, debt.min.left))))

\* A request whose run with the extra payment paid the debt off in its last
\* month with a payment of exactly balance + interest, and whose minimum-only
\* run went on for more than 360 months.
C27_Witness ==
    /\ CardDone
    /\ RLt(Zero, debt.extra_payment)
    /\ debt.extra.months > 1
    /\ SameAmount(debt.extra.left, Zero)
    /\ RLt(Zero, debt.extra.total_interest)
    /\ debt.min.months > ScheduleCap

\* ------------------------------------------------------------------------
\* Properties of the loops
\* ------------------------------------------------------------------------

InLoop == pc \in {"amortize_loop", "payoff_sim", "fire_loop"}

LoopBounds ==
    /\ pc = "amortize_loop" =>
          /\ Len(mort.schedule) = mort.m - 1
          /\ mort.m > mort.term_months =>
                Len(mort.schedule) = (IF mort.term_months > 0 THEN mort.term_months ELSE 0)
    /\ pc = "payoff_sim" =>
          /\ debt.sim.months <= MonthCap
          /\ ~PayoffLoopCond(debt.sim) =>
                (RLe(debt.sim.b, D(1, 2)) \/ debt.sim.months = MonthCap)
    /\ pc = "fire_loop" =>
          /\ Len(inv.yearly) <= FireYearCap
          /\ inv.yr <= FireYearCap + 1

\* C11: every loop terminates: the amortization loop runs term_months passes
\* (none for a term <= 0), the payoff loop runs at most 600 passes and leaves
\* with balance <= 0.01 or months = 600, the FIRE loop runs at most 70
\* passes; and a request that entered a loop is answered.
C11_LoopsTerminate ==
    /\ []LoopBounds
    /\ InLoop ~> (pc = "done")

\* A payoff run that was stopped by the cap and answered.
C11_Witness ==
    /\ pc = "done" /\ debt.fn = "api_credit_card" /\ debt.response.ok
    /\ debt.min.months = MonthCap
    /\ debt.extra.months < MonthCap

\* ------------------------------------------------------------------------
\* Properties of the FIRE goal-seek
\* ------------------------------------------------------------------------

FireDone ==
    pc = "done" /\ inv.fn = "api_fire" /\ inv.response.ok

\* The first year from y on at whose end the balance is >= the target, the
\* balance and target standing at b and t when year y begins; 0 if there is
\* none up to year 70.
\* The years first..last looked through in order, from the balance b and the
\* target t the year before left: the first of them at whose end the balance
\* is >= the target (found, else 0), and the balance and target where the
\* search stopped.  The range is halved, which keeps the evaluation shallow.
RECURSIVE FireScan(_, _, _, _, _)
FireScan(first, last, b, t, f) ==
    IF first = last
    THEN Val({ [found   |-> IF RLe(m.fire_target, m.balance) THEN first ELSE 0,
                balance |-> m.balance, fire_target |-> m.fire_target]
               : m \in {FireMonths(12, b, t, f.monthly_return, f.monthly_savings,
                                   f.inflation_monthly)} })
    ELSE Val({ IF left.found > 0 THEN left
               ELSE FireScan(((first + last) \div 2) + 1, last, left.balance,
                             left.fire_target, f)
               : left \in {FireScan(first, (first + last) \div 2, b, t, f)} })

FirstFireYear(y, b, t, f) == FireScan(y, FireYearCap, b, t, f).found

\* C12: years_to_fire is the first year in 1..70 at whose end the balance is
\* >= the inflating target, fire_age is current_age plus it, and the
\* projection has exactly that many entries; with no such year both are
\* null and the projection has 70 entries.
C12_StopsAtFirstYearReached ==
    FireDone =>
        \E y \in {FirstFireYear(1, Get(inv.data, "current_savings", Zero),
                                inv.fire_number, inv)} :
            IF y > 0
            THEN /\ inv.response.data.years_to_fire = Some(y)
                 /\ inv.response.data.fire_age = Some(inv.current_age + y)
                 /\ Len(inv.response.data.yearly_projection) = y
            ELSE /\ inv.response.data.years_to_fire = None
                 /\ inv.response.data.fire_age = None
                 /\ Len(inv.response.data.yearly_projection) = FireYearCap

\* A target reached after the first year and before the last.
C12_Witness ==
    /\ FireDone
    /\ inv.response.data.years_to_fire # None
    /\ inv.response.data.years_to_fire[1] > 1
    /\ inv.response.data.years_to_fire[1] < FireYearCap
    /\ Len(inv.response.data.yearly_projection) = inv.response.data.years_to_fire[1]

\* ------------------------------------------------------------------------
\* Rent vs buy
\* ------------------------------------------------------------------------

RvbLoopOver ==
    /\ mort.fn = "api_rent_vs_buy"
    /\ "yearly" \in DOMAIN mort
    /\ mort.yr > mort.years

RvbDone == RvbLoopOver /\ pc = "done"

Crosses(row) == RLe(row.rent_net_worth, row.buy_net_worth)

\* C13: in rent-vs-buy, breakeven_year is the first year of yearly_comparison
\* whose buy_net_worth is at least its rent_net_worth, and it is null exactly
\* when no year of the horizon is one; the series has min(years, 30) rows,
\* numbered 1, 2, ..., N, each carrying both net worths.
C13_BreakevenIsFirstCrossing ==
    RvbLoopOver =>
        LET yc    == mort.yearly
            N     == Len(yc)
            years == Get(mort.data, "years", 10)
            by    == mort.breakeven_year
        IN  /\ N = (IF years < 30 THEN years ELSE 30)
            /\ \A y \in 1..N : yc[y].year = y
            /\ (by = None) <=> (\A y \in 1..N : ~Crosses(yc[y]))
            /\ by # None => /\ by[1] \in 1..N
                            /\ Crosses(yc[by[1]])
                            /\ \A y \in 1..(by[1] - 1) : ~Crosses(yc[y])
            /\ pc = "done" => /\ mort.response.data.breakeven_year = by
                              /\ mort.response.data.yearly_comparison = yc

\* A three-year comparison whose first crossing is its second year and whose
\* third year is no crossing.
C13_Witness ==
    /\ RvbDone
    /\ Len(mort.yearly) = 3
    /\ mort.response.data.breakeven_year = Some(2)
    /\ ~Crosses(mort.yearly[1])
    /\ ~Crosses(mort.yearly[3])

FinalDiff ==
    RSub(mort.response.data.buy_net_worth_at_horizon,
         mort.response.data.rent_net_worth_at_horizon)

\* C14: the recommendation follows from the final year's difference
\* d = buy_net_worth - rent_net_worth alone: BUY exactly when d > 5000, RENT
\* exactly when d < -5000, NEUTRAL for every d from -5000 to 5000.
C14_RecommendationFromFinalDifference ==
    RvbDone =>
        LET data == mort.response.data
            last == data.yearly_comparison[Len(data.yearly_comparison)]
        IN  /\ data.buy_net_worth_at_horizon = last.buy_net_worth
            /\ data.rent_net_worth_at_horizon = last.rent_net_worth
            /\ (data.recommendation = "BUY") <=> RLt(RI(5000), FinalDiff)
            /\ (data.recommendation = "RENT") <=> RLt(FinalDiff, RI(0 - 5000))
            /\ (data.recommendation = "NEUTRAL") <=>
                   (RLe(RI(0 - 5000), FinalDiff) /\ RLe(FinalDiff, RI(5000)))

\* A difference of exactly -5000, reported NEUTRAL.
C14_Witness ==
    /\ RvbDone
    /\ FinalDiff = RI(0 - 5000)
    /\ mort.response.data.recommendation = "NEUTRAL"

\* ------------------------------------------------------------------------
\* Enumerated options, wrappers, capital gains
\* ------------------------------------------------------------------------

CgtDone == pc = "done" /\ tax.fn = "api_capital_gains"

FreelanceDone == pc = "done" /\ tax.fn = "api_freelance"

Countries == {"US", "UK", "IN"}

\* The asset types INDIA_CGT has rates for.
RecognisedAssetTypes == {"equity", "property", "other"}

\* C15: a request whose country, or whose capital-gains asset type, is not
\* one the policy tables know is answered with an error, never with a
\* computed result.
C15_UnrecognisedOptionIsRefused ==
    (CgtDone \/ FreelanceDone \/ (pc = "done" /\ tax.fn = "api_take_home_pay")) =>
        ((\/ Upper(Get(tax.data, "country", "US")) \notin Countries
          \/ /\ tax.fn = "api_capital_gains"
             /\ Get(tax.data, "asset_type", "equity") \notin RecognisedAssetTypes)
             => ~tax.response.ok)

WrapperGross ==
    IF tax.fn = "api_freelance" THEN tax.data.gross_revenue ELSE tax.data.gross_income

\* C17: every answer of the take-home and freelance wrappers carries a total
\* tax, an effective rate, a marginal rate and a breakdown by component; the
\* effective rate is 0 for a gross of 0 or less and otherwise total tax over
\* gross as a percentage, to the cent it is rounded to.
C17_WrappersReportRatesAndBreakdown ==
    (pc = "done" /\ tax.fn \in {"api_take_home_pay", "api_freelance"} /\ tax.response.ok) =>
        LET d == tax.response.data
        IN  /\ {"total_tax", "effective_rate", "marginal_rate", "breakdown"} \subseteq DOMAIN d
            /\ IF RLe(WrapperGross, Zero) THEN d.effective_rate = Zero
               ELSE \E pct \in {Round(RMul(RDiv(d.total_tax, WrapperGross), RI(100)), 2)} :
                        /\ RLe(RSub(d.effective_rate, pct), D(1, 2))
                        /\ RLe(RSub(pct, d.effective_rate), D(1, 2))

\* The rate of the band of `brackets` with previousUpper < income <= upper
\* (the first band also holds every income of 0 or less).
PreferentialRate(income, brackets) ==
    LET i == CHOOSE k \in 1 .. Len(brackets) :
                 /\ RLe(income, brackets[k][1])
                 /\ k > 1 => RLt(brackets[k - 1][1], income)
    IN  brackets[i][2]

Rollups ==
    IF pc # "done" THEN {}
    ELSE IF mort.fn = "_summarize_by_year" THEN {<<mort.schedule, mort.result>>}
    ELSE IF mort.fn = "api_repayment" /\ mort.response.ok
    THEN {<<mort.response.data.amortization_table, mort.response.data.summary_by_year>>}
    ELSE {}

RECURSIVE SumRows(_, _, _, _)
SumRows(schedule, lo, hi, field) ==
    IF lo > hi THEN Zero ELSE RAdd(schedule[lo][field], SumRows(schedule, lo + 1, hi, field))

LastRowOf(k, len) == IF 12 * k < len THEN 12 * k ELSE len

\* C20: the rollup of a schedule of L rows has ceil(L / 12) entries numbered
\* 1 .. ceil(L / 12); entry k sums the principal and the interest of rows
\* 12(k-1)+1 .. min(12k, L) and reports the balance of the last row of that
\* chunk; the per-year totals add up to the totals over all rows; an empty
\* schedule gives an empty rollup.
C20_YearlyRollup ==
    \A pair \in Rollups :
        LET schedule == pair[1]
            yearly   == pair[2]
            len      == Len(pair[1])
        IN  /\ (len + 11) \div 12 = Len(yearly)
            /\ 12 * (Len(yearly) - 1) < len \/ len = 0
            /\ len <= 12 * Len(yearly)
            /\ \A k \in 1 .. Len(yearly) :
                 /\ yearly[k].year = k
                 /\ SameAmount(yearly[k].principal_paid,
                               Round(SumRows(schedule, 12 * (k - 1) + 1, LastRowOf(k, len),
                                             "principal"), 2))
                 /\ SameAmount(yearly[k].interest_paid,
                               Round(SumRows(schedule, 12 * (k - 1) + 1, LastRowOf(k, len),
                                             "interest"), 2))
                 /\ SameAmount(yearly[k].balance,
                               Round(schedule[LastRowOf(k, len)].balance, 2))
            /\ SameAmount(SumField(yearly, "principal_paid"),
                          SumRows(schedule, 1, len, "principal"))
            /\ SameAmount(SumField(yearly, "interest_paid"),
                          SumRows(schedule, 1, len, "interest"))
            /\ (len = 0 => yearly = <<>>)

\* A rollup of 25 rows: two full years and a last chunk of one row, with
\* interest in every row and a year of more than one row.
C20_Witness ==
    /\ pc = "done"
    /\ mort.fn = "_summarize_by_year"
    /\ Len(mort.schedule) = MaxRows
    /\ Len(mort.result) = 3
    /\ RLt(Zero, mort.result[3].interest_paid)
    /\ RLt(mort.result[3].principal_paid, mort.result[2].principal_paid)
    /\ ~SameAmount(mort.result[1].balance, mort.result[2].balance)

\* A field the request lacks or carries as something float() refuses.
Offending(data, field) == field \notin DOMAIN data \/ ~IsNumber(data[field])

\* The label under which api_repayment reports each of its fields.
FieldLabel ==
    [principal |-> "Loan amount", annual_rate |-> "Annual interest rate",
     term_years |-> "Loan term"]

RepaymentDone == pc = "done" /\ mort.fn = "api_repayment"

BudgetDone == pc = "done" /\ budget.fn = "api_budget"

\* The fields each calculator reads without a default.
RepaymentRequired == {"principal", "annual_rate", "term_years"}

\* The one error text of api_freelance that names gross_revenue.
NamesGrossRevenue(error) == error = "'gross_revenue'"

\* C16: a request in which a required field is missing or not a number is
\* answered with a validation error that identifies that field, and no
\* result is computed with a default put in the place of a value that is
\* not a number.
C16_RequiredFieldsAreValidated ==
    /\ RepaymentDone =>
         \A field \in RepaymentRequired :
             Offending(mort.data, field) =>
                 /\ ~mort.response.ok
                 /\ \E i \in 1 .. Len(mort.response.error) :
                      mort.response.error[i].label = FieldLabel[field]
    /\ FreelanceDone /\ Offending(tax.data, "gross_revenue") =>
         /\ ~tax.response.ok
         /\ NamesGrossRevenue(tax.response.error)
    /\ BudgetDone =>
         \A key \in DOMAIN budget.data :
             ~IsNumber(budget.data[key]) => ~budget.response.ok

\* The loan balance behind the buyer equity of the year just simulated:
\* buyer_equity = home_value - balance_end.
RvbBalanceEnd(f) == RSub(f.home_value, f.buyer_equity)

RvbInLoop == mort.fn = "api_rent_vs_buy" /\ "yearly" \in DOMAIN mort

\* C26: in rent-vs-buy, the loan balance used for the buyer equity never
\* rises from one simulated year to the next, and in every simulated year
\* after the loan term it is 0, so buy_net_worth is the home value.
C26_LoanBalanceAfterTerm ==
    /\ [][RvbInLoop /\ RvbInLoop' /\ mort'.yr = mort.yr + 1 =>
              RLe(RvbBalanceEnd(mort'), RvbBalanceEnd(mort))]_vars
    /\ [](RvbInLoop /\ mort.yr - 1 > Get(mort.data, "term_years", 30) =>
              /\ SameAmount(RvbBalanceEnd(mort), Zero)
              /\ mort.yearly[mort.yr - 1].buy_net_worth = Round(mort.home_value, 2))

\* The bracket-based income tax a take-home result reports in its breakdown.
ReportedBracketTax ==
    IF Upper(tax.data.country) = "US" THEN tax.response.data.breakdown.federal_tax
    ELSE tax.response.data.breakdown.income_tax

\* C22: in every take-home result the tax amounts listed in
\* tax_brackets_applied add up to the bracket-based income tax of the
\* breakdown (federal_tax for US, income_tax for UK and India).
C22_BracketsAddUpToReportedTax ==
    TakeHomeOk =>
        SameAmount(SumField(tax.response.data.tax_brackets_applied, "tax"),
                   ReportedBracketTax)

\* max(12570 - max(income - 100000, 0) / 2, 0)
TaperedAllowance(income) ==
    RMax(RSub(RI(12570), RDiv(RMax(RSub(income, RI(100000)), Zero), RI(2))), Zero)

TakeHomeUk == TakeHomeOk /\ Upper(tax.data.country) = "UK"

FreelanceUk ==
    /\ FreelanceDone
    /\ tax.response.ok
    /\ Upper(Get(tax.data, "country", "US")) = "UK"

\* C23: both UK wrappers tax the income less the allowance
\* max(12570 - max(income - 100000, 0) / 2, 0): _uk_take_home on the gross
\* income, _uk_freelance on the net profit; the allowance is never negative,
\* so the taxable income never exceeds the income being taxed.
C23_UkAllowanceTaper ==
    /\ TakeHomeUk =>
         \E sides \in SideChoices :
             tax.response.data.breakdown.income_tax =
                 Round(_apply_brackets(RMax(RSub(tax.data.gross_income,
                                                 TaperedAllowance(tax.data.gross_income)),
                                            Zero),
                                       UK_TAX_BRACKETS, sides).tax, 2)
    /\ FreelanceUk =>
         /\ SameAmount(tax.response.data.taxable_income,
                       Round(RMax(RSub(tax.response.data.net_profit,
                                       TaperedAllowance(tax.response.data.net_profit)),
                                  Zero), 2))
         /\ RLe(tax.response.data.taxable_income, RMax(tax.response.data.net_profit, Zero))

TakeHomeUs == TakeHomeOk /\ Upper(tax.data.country) = "US"

\* The additional-Medicare threshold of a filing status.
AdditionalMedicareThreshold(filing) ==
    IF filing = "mfj" THEN RI(250000) ELSE RI(200000)

RoundsTo(field, x) == \E side \in Sides : field = RoundTie(x, 2, side)

\* C24: in US take-home pay the additional Medicare tax of 0.9% is charged
\* only on the gross wages above the threshold of the filer's status (200000
\* single, 250000 mfj), and Social Security tax on min(gross, 176100) only.
C24_UsPayrollTaxes ==
    TakeHomeUs =>
        LET gross  == tax.data.gross_income
            filing == UsFiling(Lower(tax.data.filing_status))
        IN  /\ RoundsTo(tax.response.data.breakdown.social_security,
                        RMul(RMin(gross, RI(176100)), D(62, 3)))
            /\ RoundsTo(tax.response.data.breakdown.medicare,
                        RAdd(RMul(gross, D(145, 4)),
                             RMul(RMax(RSub(gross, AdditionalMedicareThreshold(filing)),
                                       Zero),
                                  D(9, 3))))

CgtOk == CgtDone /\ tax.response.ok

\* C29: every capital-gains result has tax_owed >= 0, and a sale at or below
\* the purchase price has tax_owed 0 and net_proceeds equal to the gain.
C29_NoTaxWithoutGain ==
    CgtOk =>
        /\ RLe(Zero, tax.response.data.tax_owed)
        /\ RLe(tax.data.sale_price, tax.data.purchase_price) =>
               /\ SameAmount(tax.response.data.tax_owed, Zero)
               /\ SameAmount(tax.response.data.net_proceeds, tax.response.data.gain)

RefinanceOk == pc = "done" /\ mort.fn = "api_refinance" /\ mort.response.ok

\* The unrounded monthly savings of the answered refinance request.
RefinanceSavings ==
    LET current_months == IntOf(RMul(Get(mort.data, "current_remaining_years", RI(25)),
                                     RI(12)))
        new_months     == IntOf(RMul(Get(mort.data, "new_term_years", RI(30)), RI(12)))
    IN  RSub(_monthly_payment(mort.data.current_balance, mort.data.current_rate,
                              current_months).value,
             _monthly_payment(mort.data.current_balance, mort.data.new_rate,
                              new_months).value)

\* C28: the refinance calculator recommends REFINANCE exactly when the new
\* payment is lower than the current one and floor(closing_costs /
\* monthly_savings) is less than the remaining months of the current loan,
\* closing costs of 0 included, and STAY otherwise; breakeven_months is null
\* exactly when the monthly savings are <= 0.
C28_RefinanceRecommendation ==
    RefinanceOk =>
        LET savings        == RefinanceSavings
            closing_costs  == Get(mort.data, "closing_costs", RI(4000))
            current_months == IntOf(RMul(Get(mort.data, "current_remaining_years", RI(25)),
                                         RI(12)))
            worthwhile     == /\ RLt(Zero, savings)
                              /\ IntOf(RDiv(closing_costs, savings)) < current_months
        IN  /\ mort.response.data.recommendation =
                   (IF worthwhile THEN "REFINANCE" ELSE "STAY")
            /\ (mort.response.data.breakeven_months = None) <=> RLe(savings, Zero)

StudentLoanDone == pc = "done" /\ debt.fn = "api_student_loan"

\* C30: in the student-loan calculator a request with loan_type undergrad,
\* grad or parent_plus and no current_rate has its current payment computed
\* with the preset rate of that loan type (6.53, 8.08, 9.08); a request that
\* supplies current_rate has it computed with the supplied rate.
C30_PresetRateWithoutCurrentRate ==
    (StudentLoanDone /\ {"loan_balance", "new_rate"} \subseteq DOMAIN debt.data) =>
        LET data           == debt.data
            loan_type      == Get(data, "loan_type", "custom")
            current_months == IntOf(RMul(Get(data, "current_term_years", RI(10)), RI(12)))
        IN  /\ "current_rate" \in DOMAIN data =>
                  /\ debt.response.ok
                  /\ debt.response.data.current_monthly =
                         Round(debt_monthly_payment(data.loan_balance, data.current_rate,
                                                    current_months).value, 2)
            /\ ("current_rate" \notin DOMAIN data /\ loan_type \in DOMAIN preset_rates) =>
                  /\ debt.response.ok
                  /\ debt.response.data.current_monthly =
                         Round(debt_monthly_payment(data.loan_balance,
                                                    preset_rates[loan_type],
                                                    current_months).value, 2)

\* ------------------------------------------------------------------------
\* Properties of the growth projections
\* ------------------------------------------------------------------------

GrowthFns == {"api_compound_interest", "api_pension_401k", "api_sip", "api_latte_factor"}

\* A projection under way or returned (a 422 has no projection).
GrowthFrame == inv.fn \in GrowthFns /\ "yearly" \in DOMAIN inv

\* The list of year rows the calculator returns, or has built so far.
ProjectionOf(f) ==
    IF "response" \notin DOMAIN f THEN f.yearly
    ELSE CASE f.fn = "api_compound_interest" -> f.response.data.yearly_breakdown
           [] f.fn = "api_pension_401k" -> f.response.data.yearly_growth
           [] f.fn = "api_sip" -> f.response.data.yearly_breakdown
           [] f.fn = "api_latte_factor" -> f.response.data.yearly_projection

\* Starting balance >= 0, return rate >= 0 and every contribution >= 0 (a SIP
\* instalment stays >= 0 through its step-ups when step_up_pct >= -100).
NonNegativeInputs(f) ==
    CASE f.fn = "api_compound_interest" ->
           /\ RLe(Zero, Get(f.data, "principal", Zero))
           /\ RLe(Zero, f.data.annual_rate)
           /\ RLe(Zero, f.monthly_add)
      [] f.fn = "api_pension_401k" ->
           /\ RLe(Zero, Get(f.data, "current_balance", Zero))
           /\ RLe(Zero, f.monthly_return)
           /\ RLe(Zero, f.monthly_total)
      [] f.fn = "api_sip" ->
           /\ RLe(Zero, f.data.monthly_investment)
           /\ RLe(Zero, f.r_monthly)
           /\ RLe(RI(0 - 100), f.step_up_pct)
      [] f.fn = "api_latte_factor" ->
           /\ RLe(Zero, f.monthly_expense)
           /\ RLe(Zero, f.monthly_return)

\* The nominal balance of a year row.
RowBalance(fn, row) ==
    CASE fn = "api_compound_interest" -> row.balance
      [] fn = "api_pension_401k" -> row.balance
      [] fn = "api_sip" -> row.value
      [] fn = "api_latte_factor" -> row.invested

\* The contributions to date of a year row; the 401(k) rows carry none.
RowContributed(fn, row) ==
    CASE fn = "api_compound_interest" -> Some(row.contributed)
      [] fn = "api_pension_401k" -> None
      [] fn = "api_sip" -> Some(row.invested)
      [] fn = "api_latte_factor" -> Some(row.saved)

RowsAscend(fn, rows) ==
    \A i \in 1..Len(rows) :
        /\ rows[i].year = i
        /\ i > 1 =>
             /\ RLe(RowBalance(fn, rows[i - 1]), RowBalance(fn, rows[i]))
             /\ RowContributed(fn, rows[i]) # None =>
                    RLe(RowContributed(fn, rows[i - 1])[1], RowContributed(fn, rows[i])[1])

GrowthThenContribution(balance, r, c) == RAdd(FlMul(balance, RAdd(One, r)), c)

\* (balance + c) * (1 + r)
ContributionThenGrowth(balance, r, c) == FlMul(RAdd(balance, c), RAdd(One, r))

\* x and y differ by at most one grid point: api_fire adds balance * r to
\* the balance where the formula multiplies by 1 + r, and the two round
\* apart on a tie.
Close(x, y) ==
    /\ RLe(RSub(x, y), D(1, GridDigits))
    /\ RLe(RSub(y, x), D(1, GridDigits))

\* A pass of a calculator's year loop has just appended its row.
YearPassed ==
    /\ pc \in {"growth_loop", "fire_loop"}
    /\ Len(inv'.yearly) = Len(inv.yearly) + 1

\* The balance of frame f after k months of the running year, and its real
\* balance (401(k), latte factor).
BalanceAfter(f, k) ==
    CASE f.fn = "api_compound_interest" ->
           CompoundPeriods(k, f.balance, f.r_per_period,
                           Fl(RMul(f.monthly_add, RDiv(RI(12), RI(f.n)))))
      [] f.fn = "api_pension_401k" ->
           PensionMonths(k, f.balance, f.monthly_return, f.monthly_total)
      [] f.fn = "api_sip" -> SipMonths(k, f.balance, f.sip_amount, f.r_monthly)
      [] f.fn = "api_latte_factor" ->
           LatteMonths(k, f.balance, f.monthly_expense, f.monthly_return)
      [] f.fn = "api_fire" ->
           FireMonths(k, f.balance, f.fire_target, f.monthly_return, f.monthly_savings,
                      f.inflation_monthly).balance

RealBalanceAfter(f, k) ==
    CASE f.fn = "api_pension_401k" ->
           PensionMonths(k, f.real_balance, RSub(f.monthly_return, f.inflation_monthly),
                         f.monthly_total)
      [] f.fn = "api_latte_factor" ->
           LatteMonths(k, f.real_balance, f.monthly_expense,
                       RSub(f.monthly_return, f.inflation_monthly))

\* The periods of a year of frame f.
PeriodsOf(f) == IF f.fn = "api_compound_interest" THEN f.n ELSE 12

\* Month k of the running year follows the order the calculator is said to
\* apply, from the balance month k - 1 left.
MonthInOrder(f, k) ==
    Val({ CASE f.fn = "api_compound_interest" ->
                 after = GrowthThenContribution(before, f.r_per_period,
                                                Fl(RMul(f.monthly_add,
                                                        RDiv(RI(12), RI(f.n)))))
            [] f.fn = "api_pension_401k" ->
                 after = GrowthThenContribution(before, f.monthly_return, f.monthly_total)
            [] f.fn = "api_fire" ->
                 Close(after, GrowthThenContribution(before, f.monthly_return,
                                                     f.monthly_savings))
            [] f.fn = "api_sip" ->
                 after = ContributionThenGrowth(before, f.r_monthly, f.sip_amount)
            [] f.fn = "api_latte_factor" ->
                 after = ContributionThenGrowth(before, f.monthly_return, f.monthly_expense)
          : before \in {BalanceAfter(f, k - 1)}, after \in {BalanceAfter(f, k)} })

RealMonthInOrder(f, k) ==
    Val({ CASE f.fn = "api_pension_401k" ->
                 after = GrowthThenContribution(before,
                                                RSub(f.monthly_return, f.inflation_monthly),
                                                f.monthly_total)
            [] f.fn = "api_latte_factor" ->
                 after = ContributionThenGrowth(before,
                                                RSub(f.monthly_return, f.inflation_monthly),
                                                f.monthly_expense)
            [] OTHER -> TRUE
          : before \in {IF f.fn \in {"api_pension_401k", "api_latte_factor"}
                        THEN RealBalanceAfter(f, k - 1) ELSE Zero},
            after \in {IF f.fn \in {"api_pension_401k", "api_latte_factor"}
                       THEN RealBalanceAfter(f, k) ELSE Zero} })

\* C25: every monthly step of a growth calculator applies one fixed order:
\* compound interest, 401(k) and FIRE grow the balance and then add the
\* contribution, SIP and latte factor add the contribution and then grow the
\* balance; the real balance of 401(k) and latte factor follows the order of
\* its nominal balance with factor 1 + r - inflation_monthly, and equals the
\* nominal balance when inflation is 0.
C25_MonthlyOrder ==
    [][YearPassed =>
         /\ \A k \in 1..PeriodsOf(inv) : MonthInOrder(inv, k) /\ RealMonthInOrder(inv, k)
         /\ inv'.balance = BalanceAfter(inv, PeriodsOf(inv))
         /\ inv.fn \in {"api_pension_401k", "api_latte_factor"} =>
              /\ inv'.real_balance = RealBalanceAfter(inv, 12)
              /\ inv.inflation_monthly = Zero =>
                   /\ inv'.real_balance = inv'.balance
                   /\ inv'.yearly[Len(inv'.yearly)].year = inv.yr
                   /\ (inv.fn = "api_pension_401k" =>
                         inv'.yearly[Len(inv'.yearly)].real_balance =
                             inv'.yearly[Len(inv'.yearly)].balance)
                   /\ (inv.fn = "api_latte_factor" =>
                         inv'.yearly[Len(inv'.yearly)].real_value =
                             inv'.yearly[Len(inv'.yearly)].invested)]_vars

\* A latte factor without inflation, a year on: contribution and return are
\* positive, so the two orders give different balances.
C25_Witness ==
    /\ pc = "growth_loop"
    /\ inv.fn = "api_latte_factor"
    /\ inv.yr > 1
    /\ inv.inflation_monthly = Zero
    /\ RLt(Zero, inv.monthly_return)
    /\ RLt(Zero, inv.monthly_expense)
    /\ inv.real_balance = inv.balance
    /\ GrowthThenContribution(Zero, inv.monthly_return, inv.monthly_expense)
           # ContributionThenGrowth(Zero, inv.monthly_return, inv.monthly_expense)

====
